---- MODULE Spec2Model ----
(***************************************************************************)
(* Model of the chat-session formatter (scripts/format-chat-session.js and *)
(* scripts/lib/*.js).                                                      *)
(*                                                                         *)
(* Representation of JavaScript strings.  A string without a line feed (a  *)
(* "line") is a sequence of tokens; a token is a TLA+ string standing for  *)
(* the same characters, and the line is the concatenation of its tokens.   *)
(* Tokenisation is canonical: every white space character, ":", "/", "#", *)
(* ")", "|" and every fixed text the code searches for is a token of its   *)
(* own, so that equal lines have equal token sequences and the code's      *)
(* startsWith / includes / regular expressions can be computed on tokens.  *)
(* A string that may hold line feeds (a "text") is the non-empty sequence   *)
(* of its lines, i.e. text.split('\n').                                    *)
(* TLA+ strings hold neither the backquote nor non-ASCII characters: the   *)
(* token FENCE stands for three backquotes, "[backquote]" for one, and an   *)
(* emoji is written as its code point between brackets.  The double quote  *)
(* is written "[quote]".                                                   *)
(***************************************************************************)
EXTENDS Integers, Sequences, FiniteSets, TLC

VARIABLES
    userIdentifier,  \* parseContent: parameter userIdentifier
    lines,           \* parseContent: lines[0 .. i-1], the lines read so far
    sections,        \* parseContent: const sections = []
    currentSection,  \* parseContent: let currentSection
    inCodeBlock,     \* parseContent: let inCodeBlock
    inAction,        \* parseContent: let inAction
    merged,          \* mergeSections: const merged = []
    agentContent,    \* mergeSections: state.agentContent
    agentActions,    \* mergeSections: state.agentActions
    document,        \* the content of the input file (a text)
    output,          \* processContent: the value returned by the last run
    force,           \* processContent: options.force of the last run
    calls,           \* processContent: the functions the last run has called
    appended,        \* the raw lines added at the end of the formatted file
    runs,            \* the number of runs of the script so far
    written,         \* where the last run has written its result: "file"
                     \* (safeWriteFile, to the output file or else to the
                     \* input file), "stdout" (process.stdout.write), or
                     \* nowhere
    exitCode,        \* the exit status of the last run, -1 before any run
                     \* and while a run awaits readStdin
    data,            \* readStdin: let data
    timeout,         \* readStdin: the timer of setTimeout: "none" (readStdin
                     \* has not been called), "armed", "cleared" or "fired"
    promise,         \* readStdin: the promise returned, its state ("none"
                     \* before the call, "pending", "fulfilled", "rejected")
                     \* and its value or reason
    stdin,           \* process.stdin: "paused" (no listener), "flowing",
                     \* "ended" or "errored"
    chunks,          \* the chunks that 'data' has delivered, in arrival order
    stderr,          \* the text that the last run has written to
                     \* process.stderr
    pc               \* the position of the run: "parse" (in the loop of
                     \* parseContent), "parsed" (it returned), "merging" (in the
                     \* loop of mergeSections), "merged" (it returned), "ready"
                     \* (the script can be run on the file), "done" (a run has
                     \* ended), "edited" (the file has been added to), "text"
                     \* (a text is given to a transform), "transformed" (it
                     \* returned), "chat" (processContent is called on a
                     \* content), "returnedNull" (it found no user identifier),
                     \* "chatDetected", "chatParsed", "chatMerged",
                     \* "chatFrontmatter", "formatted" (the content on its way
                     \* through parseContent, mergeSections, generateFrontmatter
                     \* and formatSection), "assembled", "linted" (the document
                     \* on its way through the linting passes), "reading" (main
                     \* awaits readStdin)

segVars == <<userIdentifier, lines, currentSection, inCodeBlock, inAction>>
mergeVars == <<merged, agentContent, agentActions>>
procVars == <<document, output, force, calls, appended, runs, written, exitCode>>
stdinVars == <<data, timeout, promise, stdin, chunks, stderr>>

vars == <<segVars, sections, mergeVars, procVars, stdinVars, pc>>

----------------------------------------------------------------------------
(* Bounds *)

MaxLines == 5
MaxSegments == 5
MaxDocLines == 3
MaxRuns == 2
MaxAppended == 2
MaxTextLines == 4

----------------------------------------------------------------------------
(* String helpers *)

WhiteSpace == {" ", "\t"}

RECURSIVE trimStart(_)
trimStart(l) ==
    IF l # <<>> /\ Head(l) \in WhiteSpace THEN trimStart(Tail(l)) ELSE l

RECURSIVE trimEnd(_)
trimEnd(l) ==
    IF l # <<>> /\ l[Len(l)] \in WhiteSpace THEN trimEnd(SubSeq(l, 1, Len(l) - 1)) ELSE l

trim(l) == trimEnd(trimStart(l))

startsWith(l, prefix) ==
    /\ Len(l) >= Len(prefix)
    /\ SubSeq(l, 1, Len(prefix)) = prefix

\* The rest of l after its first Len(prefix) tokens
dropPrefix(l, prefix) == SubSeq(l, Len(prefix) + 1, Len(l))

\* A one-line JavaScript string as a text
Str(l) == <<l>>

\* null where a text or a line is expected (a text has at least one line, and
\* the code tests a line that may be null for falsiness only)
null == <<>>

\* The concatenation of the sequences pieces[lo] .. pieces[hi] (the range is
\* halved to keep the evaluation shallow)
RECURSIVE concatRange(_, _, _)
concatRange(pieces, lo, hi) ==
    IF lo > hi THEN <<>>
    ELSE IF lo = hi THEN pieces[lo]
    ELSE LET mid == (lo + hi) \div 2 IN
         concatRange(pieces, lo, mid) \o concatRange(pieces, mid + 1, hi)

concatAll(pieces) == concatRange(pieces, 1, Len(pieces))

\* array.join('\n') of an array of texts
joinLF(arr) == IF arr = <<>> THEN <<<<>>>> ELSE concatAll(arr)

----------------------------------------------------------------------------
(* constants.js *)

\* MARKERS.PROCESSED: '<!-- formatted-chat-session -->'
PROCESSED == <<"<!--", " ", "formatted-chat-session", " ", "-->">>

\* The three backquotes that open or close a code fence
FENCE == "[3 backquotes]"

\* 'GitHub Copilot:' (parsers.js:144)
AGENT_PREFIX == <<"GitHub", " ", "Copilot", ":">>

\* The tokens that match \d+
Numbers == {"0", "1", "2", "3", "4", "5", "6", "7", "8", "9", "10", "12"}

\* ACTION_PATTERNS.some(pattern => pattern.test(line)); every pattern is
\* anchored at the start of the untrimmed line.
\*   /^Read \[\]\(file:\/\/(.+?)\)/    /^Created \[\]\(file:\/\/(.+?)\)/
\*   /^Using "Replace String in File"/ /^Searched text for/
\*   /^Updated todo list/              /^Completed \(\d+\/\d+\)/
\*   /^Made changes\./                 /^Summarized conversation history/
\*   /^Created \d+ todos/
ACTION_PATTERNS(l) ==
    \/ /\ \/ startsWith(l, <<"Read", " ", "[](", "file://">>)
          \/ startsWith(l, <<"Created", " ", "[](", "file://">>)
       /\ \E j \in 6..Len(l) : l[j] = ")"
    \/ startsWith(l, <<"Using", " ", "\"Replace", " ", "String", " ", "in", " ", "File\"">>)
    \/ startsWith(l, <<"Searched", " ", "text", " ", "for">>)
    \/ startsWith(l, <<"Updated", " ", "todo", " ", "list">>)
    \/ /\ startsWith(l, <<"Completed", " ", "(">>)
       /\ Len(l) >= 7
       /\ l[4] \in Numbers /\ l[5] = "/" /\ l[6] \in Numbers /\ l[7] = ")"
    \/ startsWith(l, <<"Made", " ", "changes.">>)
    \/ startsWith(l, <<"Summarized", " ", "conversation", " ", "history">>)
    \/ /\ startsWith(l, <<"Created", " ">>)
       /\ Len(l) >= 5
       /\ l[3] \in Numbers /\ l[4] = " " /\ l[5] = "todos"

\* NOISE_PATTERNS.some(pattern => pattern.test(line.trim()))
\*   /^Continue to iterate\?$/   /^\[object Object\]$/
NOISE_PATTERNS(l) ==
    trim(l) \in {<<"Continue", " ", "to", " ", "iterate?">>, <<"[object", " ", "Object]">>}

\* IGNORE_USER_PROMPTS.some(pattern => pattern.test(promptContent))
\*   /^@agent Continue:/   /^Continue:/
IGNORE_USER_PROMPTS(p) ==
    \/ startsWith(p, <<"@agent", " ", "Continue", ":">>)
    \/ startsWith(p, <<"Continue", ":">>)

----------------------------------------------------------------------------
(* parsers.js: parseContent *)

\* { type, content, raw } (and actions for an agent-action section).  raw is
\* always content.join('\n') when a section is pushed and is not stored.
\* hasActions tells whether the object has an actions property.
Section(t, c) == [type |-> t, content |-> c, actions |-> <<>>, hasActions |-> FALSE]

ActionSection(c, a) == [type |-> "agent-action", content |-> c, actions |-> a, hasActions |-> TRUE]

\* The loop state of parseContent
ParseState(s, c, cb, ia) == [sections |-> s, currentSection |-> c, inCodeBlock |-> cb, inAction |-> ia]

\* parsers.js:95-99
ParseInit == ParseState(<<>>, Section("unknown", <<>>), FALSE, FALSE)

\* Mutant of pushIfContent: the open section is pushed whatever its content
pushAlways(s, c) == Append(s, c)

\* if (currentSection.content.length > 0) sections.push({ ...currentSection })
pushIfContent(s, c) == IF Len(c.content) > 0 THEN Append(s, c) ELSE s

\* Mutant of promptContentOf: the payload is not trimmed
promptContentOfUntrimmed(uid, l) == dropPrefix(l, <<uid, ":">>)

promptContentOf(uid, l) == trim(dropPrefix(l, <<uid, ":">>))

\* Mutant of Branch: the fence tests come before the noise test
BranchFenceBeforeNoise(st, uid, l) ==
    IF startsWith(l, <<FENCE>>) THEN "fence"
    ELSE IF st.inCodeBlock THEN "inFence"
    ELSE IF NOISE_PATTERNS(l) THEN "noise"
    ELSE IF startsWith(l, <<uid, ":">>) THEN
        IF IGNORE_USER_PROMPTS(promptContentOf(uid, l)) THEN "userIgnored" ELSE "user"
    ELSE IF startsWith(l, AGENT_PREFIX) THEN "agent"
    ELSE IF ACTION_PATTERNS(l) /\ ~st.inAction THEN "actionStart"
    ELSE IF st.inAction THEN
        IF ACTION_PATTERNS(l) THEN "actionAppend"
        ELSE IF trim(l) = <<>> THEN "actionBlank"
        ELSE "actionEnd"
    ELSE "append"

\* The branch of the loop body that line l takes in state st (the order of the
\* tests is the order of the code)
Branch(st, uid, l) ==
    IF NOISE_PATTERNS(l) THEN "noise"
    ELSE IF startsWith(l, <<FENCE>>) THEN "fence"
    ELSE IF st.inCodeBlock THEN "inFence"
    ELSE IF startsWith(l, <<uid, ":">>) THEN
        IF IGNORE_USER_PROMPTS(promptContentOf(uid, l)) THEN "userIgnored" ELSE "user"
    ELSE IF startsWith(l, AGENT_PREFIX) THEN "agent"
    ELSE IF ACTION_PATTERNS(l) /\ ~st.inAction THEN "actionStart"
    ELSE IF st.inAction THEN
        IF ACTION_PATTERNS(l) THEN "actionAppend"
        ELSE IF trim(l) = <<>> THEN "actionBlank"
        ELSE "actionEnd"
    ELSE "append"

\* parsers.js:110-119: a fence marker toggles inCodeBlock; it and every line
\* read inside a fence are pushed to currentSection.content
DoFence(st, l) ==
    [st EXCEPT !.inCodeBlock = ~st.inCodeBlock,
               !.currentSection.content = Append(@, Str(l))]

DoInFence(st, l) == [st EXCEPT !.currentSection.content = Append(@, Str(l))]

\* Mutant of DoUser: the inAction flag is left as it is
DoUserKeepsInAction(st, uid, l) ==
    ParseState(pushIfContent(st.sections, st.currentSection),
               Section("user-prompt", <<Str(promptContentOf(uid, l))>>),
               st.inCodeBlock, st.inAction)

\* parsers.js:130-140
DoUser(st, uid, l) ==
    ParseState(pushIfContent(st.sections, st.currentSection),
               Section("user-prompt", <<Str(promptContentOf(uid, l))>>),
               st.inCodeBlock, FALSE)

\* Mutant of DoAgent: the section that is opened has type unknown
DoAgentOpensUnknown(st, l) ==
    ParseState(pushIfContent(st.sections, st.currentSection),
               Section("unknown", <<Str(trim(dropPrefix(l, AGENT_PREFIX)))>>),
               st.inCodeBlock, FALSE)

\* parsers.js:144-156
DoAgent(st, l) ==
    ParseState(pushIfContent(st.sections, st.currentSection),
               Section("agent-response", <<Str(trim(dropPrefix(l, AGENT_PREFIX)))>>),
               st.inCodeBlock, FALSE)

\* Mutant of DoActionStart: the line is appended to the open section as text
DoActionStartAsText(st, l) ==
    [st EXCEPT !.currentSection.content = Append(@, Str(l))]

\* parsers.js:161-178: start of an action sequence, then the push of the line
\* to the new section's actions
DoActionStart(st, l) ==
    ParseState(IF st.currentSection.type = "agent-response"
                  /\ Len(st.currentSection.content) > 0
               THEN Append(st.sections, st.currentSection)
               ELSE st.sections,
               ActionSection(<<>>, <<Str(l)>>),
               st.inCodeBlock, TRUE)

\* Mutant of DoActionAppend: the line is pushed to the content of the section
DoActionAppendToContent(st, l) ==
    [st EXCEPT !.currentSection.content = Append(@, Str(l))]

\* parsers.js:177-178
DoActionAppend(st, l) == [st EXCEPT !.currentSection.actions = Append(@, Str(l))]

\* Mutant of DoActionEnd: the accumulated actions are not copied to content
DoActionEndNoCopy(st, l) ==
    ParseState(IF Len(st.currentSection.actions) > 0
               THEN Append(st.sections, st.currentSection)
               ELSE st.sections,
               Section("agent-response", <<Str(l)>>),
               st.inCodeBlock, FALSE)

\* parsers.js:182-195
DoActionEnd(st, l) ==
    ParseState(IF Len(st.currentSection.actions) > 0
               THEN Append(st.sections,
                           [st.currentSection EXCEPT !.content = st.currentSection.actions])
               ELSE st.sections,
               Section("agent-response", <<Str(l)>>),
               st.inCodeBlock, FALSE)

\* Mutant of DoAppend: the open section still shares its content array with
\* the copy that was emitted last, so the line is appended to both
DoAppendShared(st, l) ==
    [st EXCEPT !.currentSection.content = Append(@, Str(l)),
               !.sections = IF @ = <<>> THEN @
                            ELSE [@ EXCEPT ![Len(@)].content = Append(@, Str(l))]]

\* parsers.js:200
DoAppend(st, l) == [st EXCEPT !.currentSection.content = Append(@, Str(l))]

\* One iteration of the for loop
Step(st, uid, l) ==
    LET b == Branch(st, uid, l) IN
    CASE b = "noise" -> st
      [] b = "fence" -> DoFence(st, l)
      [] b = "inFence" -> DoInFence(st, l)
      [] b = "userIgnored" -> st
      [] b = "user" -> DoUser(st, uid, l)
      [] b = "agent" -> DoAgent(st, l)
      [] b = "actionStart" -> DoActionStart(st, l)
      [] b = "actionAppend" -> DoActionAppend(st, l)
      [] b = "actionBlank" -> st
      [] b = "actionEnd" -> DoActionEnd(st, l)
      [] OTHER -> DoAppend(st, l)

\* parsers.js:203-209: the last section
Finish(st) == pushIfContent(st.sections, st.currentSection)

\* The iterations of the for loop on the lines ls[lo] .. ls[hi], in order,
\* from state st.  The range is halved and the state is looked at before the
\* iterations run, so that TLC, which evaluates an argument when it is first
\* used, computes the states from the first line on and not backwards from
\* the last, nested as deep as the input is long.
RECURSIVE parseRange(_, _, _, _, _)
parseRange(st, uid, ls, lo, hi) ==
    IF st.inAction \in BOOLEAN /\ lo > hi THEN st
    ELSE IF lo = hi THEN Step(st, uid, ls[lo])
    ELSE LET mid == (lo + hi) \div 2 IN
         parseRange(parseRange(st, uid, ls, lo, mid), uid, ls, mid + 1, hi)

parseLoop(st, uid, ls) == parseRange(st, uid, ls, 1, Len(ls))

\* parseContent(content, userIdentifier), content given as content.split('\n')
parseContent(ls, uid) == Finish(parseLoop(ParseInit, uid, ls))

----------------------------------------------------------------------------
(* parsers.js: flushAgentContent, mergeSections *)

PlaceholderTokens ==
    <<"__ACTION_PLACEHOLDER_0__", "__ACTION_PLACEHOLDER_1__", "__ACTION_PLACEHOLDER_2__",
      "__ACTION_PLACEHOLDER_3__", "__ACTION_PLACEHOLDER_4__", "__ACTION_PLACEHOLDER_5__",
      "__ACTION_PLACEHOLDER_6__", "__ACTION_PLACEHOLDER_7__", "__ACTION_PLACEHOLDER_8__",
      "__ACTION_PLACEHOLDER_9__">>

\* `__ACTION_PLACEHOLDER_${i}__`
Placeholder(i) == Str(<<PlaceholderTokens[i + 1]>>)

\* parsers.js:228-239: the while loop; k is fusedActions.length
RECURSIVE interleave(_, _, _)
interleave(content, actions, k) ==
    IF content = <<>> /\ actions = <<>> THEN <<>>
    ELSE (IF content # <<>> THEN <<Head(content)>> ELSE <<>>)
         \o (IF actions # <<>> THEN <<Placeholder(k)>> ELSE <<>>)
         \o interleave(IF content # <<>> THEN Tail(content) ELSE <<>>,
                       IF actions # <<>> THEN Tail(actions) ELSE <<>>,
                       IF actions # <<>> THEN k + 1 ELSE k)

\* The merge state: merged, state.agentContent, state.agentActions
MergeState(m, c, a) == [merged |-> m, agentContent |-> c, agentActions |-> a]

Fused(c, a) == [type |-> "agent-response", content |-> c, actions |-> a, hasActions |-> TRUE]

\* Mutant of flushAgentContent: a fused response is made even when there is
\* no content and no action to fuse
flushAgentContentAlways(ms) ==
    MergeState(Append(ms.merged,
                      Fused(interleave(ms.agentContent, ms.agentActions, 0),
                            ms.agentActions)),
               <<>>, <<>>)

flushAgentContent(ms) ==
    IF ms.agentContent = <<>> /\ ms.agentActions = <<>> THEN ms
    ELSE MergeState(Append(ms.merged,
                           Fused(interleave(ms.agentContent, ms.agentActions, 0),
                                 ms.agentActions)),
                    <<>>, <<>>)

\* Mutant of MergeStep: an agent-action section is pushed to merged as it is
MergeStepKeepsAction(ms, section) ==
    IF section.type = "user-prompt" THEN
        LET f == flushAgentContent(ms) IN [f EXCEPT !.merged = Append(@, section)]
    ELSE IF section.type = "agent-response" THEN
        [ms EXCEPT !.agentContent = Append(@, joinLF(section.content))]
    ELSE IF section.type = "agent-action" THEN
        [ms EXCEPT !.merged = Append(@, section)]
    ELSE ms

\* parsers.js:265-281: the body of the for loop
MergeStep(ms, section) ==
    IF section.type = "user-prompt" THEN
        LET f == flushAgentContent(ms) IN [f EXCEPT !.merged = Append(@, section)]
    ELSE IF section.type = "agent-response" THEN
        [ms EXCEPT !.agentContent = Append(@, joinLF(section.content))]
    ELSE IF section.type = "agent-action" THEN
        [ms EXCEPT !.agentActions = Append(@, section)]
    ELSE ms

RECURSIVE mergeLoop(_, _)
mergeLoop(ms, ss) ==
    IF ss = <<>> THEN ms ELSE mergeLoop(MergeStep(ms, Head(ss)), Tail(ss))

mergeSections(ss) == flushAgentContent(mergeLoop(MergeState(<<>>, <<>>, <<>>), ss)).merged

----------------------------------------------------------------------------
(* More string helpers *)

endsWith(l, suffix) ==
    /\ Len(l) >= Len(suffix)
    /\ SubSeq(l, Len(l) - Len(suffix) + 1, Len(l)) = suffix

\* line.includes(pattern)
includes(l, pattern) ==
    \E i \in 1..(Len(l) - Len(pattern) + 1) : SubSeq(l, i, i + Len(pattern) - 1) = pattern

Min(S) == CHOOSE x \in S : \A y \in S : x <= y

Max(S) == CHOOSE x \in S : \A y \in S : x >= y

\* a + b for two texts: the last line of a continues with the first line of b
Concat(a, b) == SubSeq(a, 1, Len(a) - 1) \o <<a[Len(a)] \o b[1]>> \o Tail(b)

\* arr[lo] + ... + arr[hi] for an array of texts
RECURSIVE joinRange(_, _, _)
joinRange(arr, lo, hi) ==
    IF lo > hi THEN <<<<>>>>
    ELSE IF lo = hi THEN arr[lo]
    ELSE LET mid == (lo + hi) \div 2 IN
         Concat(joinRange(arr, lo, mid), joinRange(arr, mid + 1, hi))

\* array.join('') of an array of texts
join(arr) == joinRange(arr, 1, Len(arr))

\* array.join('\n\n') of an array of texts
joinLFLF(arr) ==
    IF arr = <<>> THEN <<<<>>>>
    ELSE concatAll([i \in DOMAIN arr |-> IF i = 1 THEN arr[i] ELSE <<<<>>>> \o arr[i]])

\* l.split(sep) for a separator of one token: the pieces of l between the
\* occurrences of sep
RECURSIVE split(_, _)
split(l, sep) ==
    LET at == {i \in DOMAIN l : l[i] = sep} IN
    IF at = {} THEN <<l>>
    ELSE <<SubSeq(l, 1, Min(at) - 1)>> \o split(SubSeq(l, Min(at) + 1, Len(l)), sep)

\* arr.filter(Boolean) of an array of lines
RECURSIVE filterBoolean(_)
filterBoolean(arr) ==
    IF arr = <<>> THEN <<>>
    ELSE (IF Head(arr) # <<>> THEN <<Head(arr)>> ELSE <<>>) \o filterBoolean(Tail(arr))

\* The tokens made of the characters [a-zA-Z0-9_] only (\w+)
WordTokens ==
    {"alice", "bob", "hi", "hello", "go", "GitHub", "Copilot", "Read", "Created", "Made",
     "Continue", "to", "home", "u", "p", "proj", "src", "other", "type", "projectRoot",
     "sourceFile", "processedDate", "N", "A", "stdin", "prompts", "Ran", "terminal",
     "command", "ls", "file", "folder", "dir", "sym", "selection", "see", "Title", "item",
     "code", "bash", "text", "x", "00", "User", "Prompt", "Response", "Technical",
     "Actions", "Terminal"} \cup Numbers

\* The tokens made of the characters [a-zA-Z0-9_-] only
IdentifierTokens ==
    WordTokens \cup {"-", "---", "chat-session", "formatted-chat-session", "user-prompt",
                     "agent-response", "agent-action", "2025-11-13T10", "2025-11-14T09"}

\* The index of the last token of the longest run of tokens of l that starts
\* at index i and holds no token of the set stop (i - 1 when the run is empty)
RECURSIVE runEnd(_, _, _)
runEnd(l, i, stop) ==
    IF i > Len(l) \/ l[i] \in stop THEN i - 1 ELSE runEnd(l, i + 1, stop)

----------------------------------------------------------------------------
(* parsers.js: isAlreadyProcessed, extractProjectRoot, extractUserIdentifier *)

\* Mutant of isAlreadyProcessed: the marker is looked for in the first line only
isAlreadyProcessedFirstLine(content) == includes(content[1], PROCESSED)

\* content.includes(MARKERS.PROCESSED)
isAlreadyProcessed(content) == \E i \in DOMAIN content : includes(content[i], PROCESSED)

\* decodeURIComponent, or the argument when decoding throws
safeDecodeURI(uri) ==
    IF \E i \in DOMAIN uri : uri[i] = "%" THEN uri
    ELSE [i \in DOMAIN uri |-> IF uri[i] = "%20" THEN " " ELSE uri[i]]

\* The characters of the class [)#\s] that can end a line's file URL
UrlEnd == {")", "#"} \cup WhiteSpace

\* /file:\/\/\/(.+?)[)#\s]/ matches in line n of content at token j: the
\* group takes one character at least and stops before the first character of
\* the class, which is the line feed when the line has none
rootMatchAt(content, n, j) ==
    LET l == content[n] IN
    /\ j + 2 <= Len(l)
    /\ l[j] = "file://" /\ l[j + 1] = "/"
    /\ \/ runEnd(l, j + 3, UrlEnd) < Len(l)
       \/ n < Len(content)

\* parsers.js:35-59
extractProjectRoot(content) ==
    LET ns == {n \in DOMAIN content : \E j \in DOMAIN content[n] : rootMatchAt(content, n, j)} IN
    IF ns = {} THEN null
    ELSE LET n == Min(ns)
             l == content[n]
             j == Min({k \in DOMAIN l : rootMatchAt(content, n, k)})
             match1 == SubSeq(l, j + 2, runEnd(l, j + 3, UrlEnd))
             fullPath == safeDecodeURI(IF startsWith(match1, <<"/">>) THEN match1
                                       ELSE <<"/">> \o match1)
             parts == filterBoolean(split(fullPath, "/"))
         IN IF Len(parts) >= 4
            THEN <<"/">> \o parts[1] \o <<"/">> \o parts[2] \o <<"/">> \o parts[3]
                 \o <<"/">> \o parts[4]
            ELSE null

\* line.match(/^([a-zA-Z0-9_-]+):\s/) of a trimmed line
identifierMatch(line) ==
    /\ Len(line) >= 3
    /\ line[1] \in IdentifierTokens /\ line[2] = ":" /\ line[3] \in WhiteSpace

\* Mutant of extractUserIdentifier: "user" is returned when no identifier is
\* found
extractUserIdentifierOrDefault(content) ==
    LET found == {i \in DOMAIN content :
                    /\ identifierMatch(trim(content[i]))
                    /\ \E k \in (i + 1)..Len(content) :
                           startsWith(trim(content[k]), AGENT_PREFIX)} IN
    IF found = {} THEN "user" ELSE trim(content[Min(found)])[1]

\* parsers.js:66-86; the result null is written "" (an identifier is a token)
extractUserIdentifier(content) ==
    LET found == {i \in DOMAIN content :
                    /\ identifierMatch(trim(content[i]))
                    /\ \E k \in (i + 1)..Len(content) :
                           startsWith(trim(content[k]), AGENT_PREFIX)} IN
    IF found = {} THEN "" ELSE trim(content[Min(found)])[1]

----------------------------------------------------------------------------
(* transformers.js *)

\* trimmedLine.startsWith('```')
isCodeBlockMarker(l) == startsWith(trim(l), <<FENCE>>)

\* The number of "#" at the start of a line
RECURSIVE countHashes(_)
countHashes(l) == IF l # <<>> /\ Head(l) = "#" THEN 1 + countHashes(Tail(l)) ELSE 0

\* '#'.repeat(n)
hashes(n) == [i \in 1..n |-> "#"]

\* /^#{1,6}\s/ and /^(#{1,6})\s+(.*)$/ match the same trimmed lines
isHeading(trimmedLine) ==
    LET k == countHashes(trimmedLine) IN
    /\ k \in 1..6
    /\ Len(trimmedLine) > k
    /\ trimmedLine[k + 1] \in WhiteSpace

\* /^\d+\. / (sp = {" "}) and /^\d+\.\s/ (sp = WhiteSpace)
isNumbered(l, sp) == Len(l) >= 3 /\ l[1] \in Numbers /\ l[2] = "." /\ l[3] \in sp

\* transformers.js:36-55: the context of line i (from 1); inCodeBlock is
\* toggled by the line itself before the context is built
LineContext(text, i) ==
    LET prevLine == IF i > 1 THEN text[i - 1] ELSE <<>>
        nextLine == IF i < Len(text) THEN text[i + 1] ELSE <<>> IN
    [inCodeBlock |-> Cardinality({j \in 1..i : isCodeBlockMarker(text[j])}) % 2 = 1,
     index |-> i - 1,
     prevLine |-> prevLine,
     nextLine |-> nextLine,
     trimmedLine |-> trim(text[i]),
     prevTrimmed |-> trim(prevLine),
     nextTrimmed |-> trim(nextLine)]

\* transformers.js:32-62, for an array of one transformer
transformLines(text, transformer(_, _)) ==
    [i \in DOMAIN text |-> transformer(text[i], LineContext(text, i))]

\* Mutant of shiftHeadingLevel: the new level is not capped at 6
shiftHeadingLevelNoCap(line, context) ==
    IF context.inCodeBlock THEN line
    ELSE IF isHeading(context.trimmedLine) THEN
        LET currentLevel == countHashes(context.trimmedLine)
            headingText == trimStart(SubSeq(context.trimmedLine, currentLevel + 1,
                                            Len(context.trimmedLine)))
        IN hashes(currentLevel + 1) \o <<" ">> \o headingText
    ELSE line

\* transformers.js:70-83
shiftHeadingLevel(line, context) ==
    IF context.inCodeBlock THEN line
    ELSE IF isHeading(context.trimmedLine) THEN
        LET currentLevel == countHashes(context.trimmedLine)
            headingText == trimStart(SubSeq(context.trimmedLine, currentLevel + 1,
                                            Len(context.trimmedLine)))
            newLevel == IF currentLevel + 1 < 6 THEN currentLevel + 1 ELSE 6
        IN hashes(newLevel) \o <<" ">> \o headingText
    ELSE line

\* transformers.js:91-124
addLineBreak(line, context) ==
    IF context.inCodeBlock THEN line
    ELSE IF \/ context.trimmedLine = <<>>
            \/ startsWith(line, <<"#">>)
            \/ startsWith(line, <<"-", " ">>)
            \/ startsWith(line, <<"*", " ">>)
            \/ isNumbered(line, {" "})
            \/ includes(line, <<"|">>)
            \/ startsWith(context.trimmedLine, <<"<!--">>)
            \/ startsWith(line, <<" ", " ", " ">>)
            \/ startsWith(line, <<"\t">>)
    THEN line
    ELSE LET nextTrimmed == context.nextTrimmed
             isNextLineEmpty == nextTrimmed = <<>>
             isNextLineStructure ==
                 \/ startsWith(nextTrimmed, <<"#">>)
                 \/ startsWith(nextTrimmed, <<"-", " ">>)
                 \/ startsWith(nextTrimmed, <<"*", " ">>)
                 \/ isNumbered(nextTrimmed, {" "})
                 \/ includes(nextTrimmed, <<"|">>)
                 \/ startsWith(nextTrimmed, <<FENCE>>)
                 \/ startsWith(nextTrimmed, <<" ", " ", " ">>)
                 \/ startsWith(nextTrimmed, <<"\t">>)
         IN IF ~isNextLineEmpty /\ ~isNextLineStructure THEN line \o <<" ", " ">> ELSE line

\* Mutant of removeTrailingSpace: the trailing spaces are removed whatever the
\* next line is
removeTrailingSpaceAlways(line, context) ==
    IF ~endsWith(line, <<" ">>) THEN line ELSE trimEnd(line)

\* transformers.js:132-147
removeTrailingSpace(line, context) ==
    IF ~endsWith(line, <<" ">>) THEN line
    ELSE IF ~endsWith(line, <<" ", " ">>) THEN trimEnd(line)
    ELSE IF context.nextTrimmed = <<>> THEN trimEnd(line)
    ELSE line

shiftHeadingLevels(text) == transformLines(text, shiftHeadingLevel)

forceLineBreaks(text) == transformLines(text, addLineBreak)

removeTrailingSpaces(text) == transformLines(text, removeTrailingSpace)

\* transformers.js:182-184: replace(/\n{3,}/g, '\n\n').  The line feed after
\* line i is in the run of line feeds first(i) .. last(i): two line feeds are
\* next to each other when the line between them is empty.  A run of three or
\* more keeps its first two line feeds; losing the line feed after line i,
\* which is an empty line, is losing that line.
cleanExcessiveLineBreaks(text) ==
    LET n == Len(text)
        first(i) == Max({1} \cup {j \in 1..i : text[j] # <<>>})
        last(i) == Min({n - 1} \cup {j - 1 : j \in {k \in (i + 1)..n : text[k] # <<>>}})
        removed(i) == i < n /\ last(i) - first(i) + 1 >= 3 /\ i >= first(i) + 2
    IN concatAll([i \in 1..n |-> IF removed(i) THEN <<>> ELSE <<text[i]>>])

\* /^[-*]\s/.test(t) || /^\d+\.\s/.test(t)
isListItem(t) ==
    \/ Len(t) >= 2 /\ t[1] \in {"-", "*"} /\ t[2] \in WhiteSpace
    \/ isNumbered(t, WhiteSpace)

\* transformers.js:196-233: what the loop body pushes to result for line i
spacedLine(text, i) ==
    LET line == text[i]
        trimmedLine == trim(line)
        prevLine == IF i > 1 THEN text[i - 1] ELSE <<>>
        prevTrimmed == trim(prevLine)
        isListStart == isListItem(trimmedLine) /\ ~isListItem(prevTrimmed) /\ prevTrimmed # <<>>
        needsDoubleLineBreak ==
            /\ isHeading(trimmedLine) \/ isListStart \/ startsWith(trimmedLine, <<FENCE>>)
            /\ prevTrimmed # <<>>
            /\ ~startsWith(prevTrimmed, <<"---">>)
            /\ ~startsWith(prevTrimmed, <<"<!--">>)
            /\ ~startsWith(prevTrimmed, <<FENCE>>)
        nextLine == IF i < Len(text) THEN text[i + 1] ELSE <<>>
    IN (IF needsDoubleLineBreak THEN <<<<>>>> ELSE <<>>)
       \o <<line>>
       \o (IF isHeading(trimmedLine) /\ trim(nextLine) # <<>> THEN <<<<>>>> ELSE <<>>)

\* transformers.js:191-237
ensureMarkdownSpacing(text) == concatAll([i \in DOMAIN text |-> spacedLine(text, i)])

----------------------------------------------------------------------------
(* formatters.js *)

\* MARKERS and VISUAL_MARKERS (constants.js:6-20)
MARKERS_USER_PROMPT == <<"<!--", " ", "user-prompt", " ", "-->">>
MARKERS_AGENT_RESPONSE == <<"<!--", " ", "agent-response", " ", "-->">>
MARKERS_AGENT_ACTION == <<"<!--", " ", "agent-action", " ", "-->">>
VISUAL_USER_PROMPT == <<"#", "#", " ", "[U+1F464]", " ", "User", " ", "Prompt">>
VISUAL_AGENT_RESPONSE == <<"#", "#", " ", "[U+1F916]", " ", "Response">>
VISUAL_AGENT_ACTION ==
    <<"<details><summary>", "[U+1F527]", " ", "Technical", " ", "Actions", "</summary>">>
VISUAL_AGENT_ACTION_END == <<"</details>">>

\* formatters.js:302-306
extractFilename(path) ==
    LET cleanPath == SubSeq(path, 1, runEnd(path, 1, {"#", "?"}))
        parts == split(cleanPath, "/")
    IN IF parts[Len(parts)] # <<>> THEN parts[Len(parts)] ELSE path

\* formatters.js:331-355 on one line: every match of
\* /(\w+) \[\]\((file:\/\/\/[^)#\s]+)/g is replaced; (\w+) is a whole token
\* (no line of the alphabets has another token before " [](file:///")
RECURSIVE replaceActionLinks(_, _)
replaceActionLinks(l, projectRoot) ==
    IF l = <<>> THEN <<>>
    ELSE IF /\ Len(l) >= 6
            /\ l[1] \in WordTokens /\ l[2] = " " /\ l[3] = "[](" /\ l[4] = "file://"
            /\ l[5] = "/" /\ l[6] \notin UrlEnd
    THEN LET e == runEnd(l, 6, UrlEnd)
             pathMatch1 == SubSeq(l, 6, e)
             path == safeDecodeURI(IF startsWith(pathMatch1, <<"/">>) THEN pathMatch1
                                   ELSE <<"/">> \o pathMatch1)
             filename == extractFilename(path)
             simplifiedPath == IF startsWith(path, projectRoot)
                               THEN dropPrefix(path, projectRoot) ELSE path
         IN <<l[1], " ", "[">> \o filename \o <<"](">> \o simplifiedPath
            \o replaceActionLinks(SubSeq(l, e + 1, Len(l)), projectRoot)
    ELSE <<Head(l)>> \o replaceActionLinks(Tail(l), projectRoot)

\* formatters.js:328-356
formatActionLink(action, projectRoot) ==
    IF projectRoot = null THEN action
    ELSE [i \in DOMAIN action |-> replaceActionLinks(action[i], projectRoot)]

\* emojiMap (formatters.js:372-379), the emoji written as code points
emojiMap(type) ==
    CASE type = "file" -> "[U+1F4C4]"
      [] type \in {"folder", "dir"} -> "[U+1F4C1]"
      [] type = "sym" -> "[U+1F523]"
      [] OTHER -> "[U+1F4CE]"

\* formatters.js:365-382 on one line: every match of
\* /#(file|folder|dir|sym):([^\s]+)|#(selection)\b/g is replaced
RECURSIVE replaceContextReferences(_)
replaceContextReferences(l) ==
    IF l = <<>> THEN <<>>
    ELSE IF /\ Len(l) >= 4
            /\ l[1] = "#" /\ l[2] \in {"file", "folder", "dir", "sym"} /\ l[3] = ":"
            /\ l[4] \notin WhiteSpace
    THEN LET e == runEnd(l, 4, WhiteSpace) IN
         <<"[backquote]", emojiMap(l[2]), " ">> \o SubSeq(l, 4, e) \o <<"[backquote]">>
            \o replaceContextReferences(SubSeq(l, e + 1, Len(l)))
    ELSE IF Len(l) >= 2 /\ l[1] = "#" /\ l[2] = "selection"
    THEN <<"[backquote]", "[U+1F50E]", " ", "selection", "[backquote]">>
            \o replaceContextReferences(SubSeq(l, 3, Len(l)))
    ELSE <<Head(l)>> \o replaceContextReferences(Tail(l))

\* formatters.js:363-383
formatContextReferences(text) == [i \in DOMAIN text |-> replaceContextReferences(text[i])]

\* TERMINAL_COMMAND_PATTERN: /^Ran terminal command: (.+)$/
TERMINAL_COMMAND_PREFIX == <<"Ran", " ", "terminal", " ", "command", ":", " ">>

TERMINAL_COMMAND_PATTERN(l) ==
    startsWith(l, TERMINAL_COMMAND_PREFIX) /\ Len(l) > Len(TERMINAL_COMMAND_PREFIX)

\* formatters.js:394-402: what the loop pushes for a line, as lines
terminalCommandLines(line) ==
    IF TERMINAL_COMMAND_PATTERN(line)
    THEN << <<"[U+25B6 U+FE0F]", " ", "**", "Terminal", " ", "command", ":", "**">>,
            <<FENCE, "bash">>,
            dropPrefix(line, TERMINAL_COMMAND_PREFIX),
            <<FENCE>> >>
    ELSE <<line>>

\* formatters.js:390-405
formatTerminalCommands(text) ==
    concatAll([i \in DOMAIN text |-> terminalCommandLines(text[i])])

\* formatters.js:444-450 and 488-494: the list of the actions of a section
RECURSIVE actionItems(_, _)
actionItems(actionContent, projectRoot) ==
    IF actionContent = <<>> THEN <<>>
    ELSE (IF Head(actionContent) # <<<<>>>>
          THEN <<Concat(<<<<"-", " ">>>>, formatActionLink(Head(actionContent), projectRoot))>>
          ELSE <<>>)
         \o actionItems(Tail(actionContent), projectRoot)

\* formatters.js:452-461
actionBlock(actionSection, projectRoot) ==
    Concat(Concat(<< <<>>, <<>>, MARKERS_AGENT_ACTION, VISUAL_AGENT_ACTION, <<>>, <<>> >>,
                  joinLF(actionItems(actionSection.content, projectRoot))),
           << <<>>, <<>>, VISUAL_AGENT_ACTION_END, <<>>, <<>> >>)

\* responseText.replace(placeholder, block): the first occurrence only (the
\* alphabets hold no "$", which a replacement string would interpret)
replaceFirst(text, token, block) ==
    LET at == {i \in DOMAIN text : \E j \in DOMAIN text[i] : text[i][j] = token} IN
    IF at = {} THEN text
    ELSE LET i == Min(at)
             l == text[i]
             j == Min({k \in DOMAIN l : l[k] = token})
         IN SubSeq(text, 1, i - 1)
            \o Concat(Concat(<<SubSeq(l, 1, j - 1)>>, block), <<SubSeq(l, j + 1, Len(l))>>)
            \o SubSeq(text, i + 1, Len(text))

\* formatters.js:437-467: actions.forEach from index on
RECURSIVE replacePlaceholders(_, _, _, _)
replacePlaceholders(responseText, actions, index, projectRoot) ==
    IF index >= Len(actions) THEN responseText
    ELSE replacePlaceholders(
             replaceFirst(responseText, PlaceholderTokens[index + 1],
                          actionBlock(actions[index + 1], projectRoot)),
             actions, index + 1, projectRoot)

\* formatters.js:413-509
formatSection(section, projectRoot) ==
    IF section.type = "user-prompt" THEN
        LET promptText == joinLF(section.content)
            formattedText == forceLineBreaks(formatContextReferences(promptText))
        IN Concat(Concat(<<MARKERS_USER_PROMPT, VISUAL_USER_PROMPT, <<>>, <<>>>>, formattedText),
                  << <<>>, <<>>, <<>> >>)
    ELSE IF section.type = "agent-response" THEN
        LET responseText == replacePlaceholders(joinLFLF(section.content), section.actions,
                                                0, projectRoot)
            formattedText == forceLineBreaks(formatTerminalCommands(shiftHeadingLevels(
                                 formatContextReferences(responseText))))
        IN Concat(Concat(<<MARKERS_AGENT_RESPONSE, VISUAL_AGENT_RESPONSE, <<>>, <<>>>>,
                         formattedText),
                  << <<>>, <<>>, <<>> >>)
    ELSE IF section.type = "agent-action" THEN
        Concat(Concat(<<MARKERS_AGENT_ACTION, VISUAL_AGENT_ACTION, <<>>, <<>>>>,
                      joinLF(actionItems(section.content, projectRoot))),
               << <<>>, <<>>, VISUAL_AGENT_ACTION_END, <<>>, <<>> >>)
    ELSE Concat(joinLF(section.content), << <<>>, <<>>, <<>> >>)

\* Mutant of generateFrontmatter: the processed marker is not written
generateFrontmatterNoMarker(projectRoot, inputFile, processedDate) ==
    << <<"---">>,
       <<"type", ":", " ", "chat-session">>,
       <<"projectRoot", ":", " ">> \o (IF projectRoot # null THEN projectRoot
                                       ELSE <<"N", "/", "A">>),
       <<"sourceFile", ":", " ">> \o inputFile,
       <<"processedDate", ":", " ">> \o processedDate,
       <<"---">>,
       <<>>,
       <<>> >>

\* Mutant of generateFrontmatter: the date is written on the sourceFile line
\* too
generateFrontmatterDatedSource(projectRoot, inputFile, processedDate) ==
    << <<"---">>,
       <<"type", ":", " ", "chat-session">>,
       <<"projectRoot", ":", " ">> \o (IF projectRoot # null THEN projectRoot
                                       ELSE <<"N", "/", "A">>),
       <<"sourceFile", ":", " ">> \o inputFile \o <<" ">> \o processedDate,
       <<"processedDate", ":", " ">> \o processedDate,
       <<"---">>,
       PROCESSED,
       <<>>,
       <<>> >>

\* formatters.js:519-529
generateFrontmatter(projectRoot, inputFile, processedDate) ==
    << <<"---">>,
       <<"type", ":", " ", "chat-session">>,
       <<"projectRoot", ":", " ">> \o (IF projectRoot # null THEN projectRoot
                                       ELSE <<"N", "/", "A">>),
       <<"sourceFile", ":", " ">> \o inputFile,
       <<"processedDate", ":", " ">> \o processedDate,
       <<"---">>,
       PROCESSED,
       <<>>,
       <<>> >>

----------------------------------------------------------------------------
(* format-chat-session.js: processContent *)

\* content.replace(/^---[\s\S]*?---\n\n/, ''): the text up to the first
\* "---" that ends a line followed by an empty line is removed
removeExistingFrontmatter(content) ==
    LET ends == {i \in 1..(Len(content) - 2) :
                    /\ endsWith(content[i], <<"---">>)
                    /\ i = 1 => Len(content[1]) >= 2
                    /\ content[i + 1] = <<>>} IN
    IF startsWith(content[1], <<"---">>) /\ ends # {}
    THEN SubSeq(content, Min(ends) + 2, Len(content))
    ELSE content

\* path.basename
basename(path) == LET parts == filterBoolean(split(path, "/")) IN
    IF parts = <<>> THEN <<>> ELSE parts[Len(parts)]

\* sections.map(section => formatSection(section, projectRoot))
formatSections(ss, projectRoot) == [i \in DOMAIN ss |-> formatSection(ss[i], projectRoot)]

\* format-chat-session.js:901-905: the content that is formatted
contentToFormat(given, forced) ==
    IF isAlreadyProcessed(given) /\ forced THEN removeExistingFrontmatter(given) ELSE given

\* Mutant of lintDocument: the blank-line compaction is left out
lintDocumentNoCompaction(text) == removeTrailingSpaces(ensureMarkdownSpacing(text))

\* format-chat-session.js:954-958: the arguments of compose, as they are
\* written
LintingRules ==
    <<"ensureMarkdownSpacing", "removeTrailingSpaces", "cleanExcessiveLineBreaks">>

\* fn(acc), fn one of the functions that are given to compose
applyRule(fn, acc) ==
    CASE fn = "ensureMarkdownSpacing" -> ensureMarkdownSpacing(acc)
      [] fn = "removeTrailingSpaces" -> removeTrailingSpaces(acc)
      [] fn = "cleanExcessiveLineBreaks" -> cleanExcessiveLineBreaks(acc)

\* Mutant of compose: fns.reduceRight, the functions are applied from the
\* last to the first
RECURSIVE composeRightToLeft(_, _)
composeRightToLeft(fns, value) ==
    IF fns = <<>> THEN value
    ELSE composeRightToLeft(SubSeq(fns, 1, Len(fns) - 1), applyRule(fns[Len(fns)], value))

\* transformers.js:12: compose(...fns)(value) is
\* fns.reduce((acc, fn) => fn(acc), value): the accumulator starts from the
\* value and each function, from the first to the last, is applied to it
RECURSIVE compose(_, _)
compose(fns, value) ==
    IF fns = <<>> THEN value
    ELSE compose(Tail(fns), applyRule(Head(fns), value))

\* format-chat-session.js:954-958: compose(ensureMarkdownSpacing,
\* removeTrailingSpaces, cleanExcessiveLineBreaks)(formattedContent)
lintDocument(text) == compose(LintingRules, text)

\* format-chat-session.js:920-951: formattedContent = frontmatter +
\* formattedSections, for the content in which the user identifier was found
assembleContent(content, inputFile, processedDate) ==
    LET projectRoot == extractProjectRoot(content)
        frontmatter == generateFrontmatter(projectRoot, basename(inputFile), processedDate)
        formattedSections ==
            join(formatSections(
                     mergeSections(parseContent(content, extractUserIdentifier(content))),
                     projectRoot))
    IN Concat(frontmatter, formattedSections)

\* format-chat-session.js:907-960: the run past the gate
formatContent(given, forced, inputFile, processedDate) ==
    LET content == contentToFormat(given, forced) IN
    IF extractUserIdentifier(content) = "" THEN null
    ELSE lintDocument(assembleContent(content, inputFile, processedDate))

\* format-chat-session.js:891-961
processContent(content, forced, inputFile, processedDate) ==
    IF isAlreadyProcessed(content) /\ ~forced THEN content
    ELSE formatContent(content, forced, inputFile, processedDate)

----------------------------------------------------------------------------
(* Input lines of the segmenter *)

LUser == <<"alice", ":", " ", "hi">>
LIgnored == <<"alice", ":", " ", "Continue", ":", " ", "go">>
LAgent == <<"GitHub", " ", "Copilot", ":", " ", "hello">>
LRead ==
    <<"Read", " ", "[](", "file://", "/", "home", "/", "u", "/", "p", "/", "proj", "/",
      "src", "/", "a.js", ")">>
LMade == <<"Made", " ", "changes.">>
LText == <<"Done.">>
LBlank == <<>>
LNoise == <<"Continue", " ", "to", " ", "iterate?", " ">>
LFence == <<FENCE>>

LineAlphabet ==
    {LUser, LIgnored, LAgent, LRead, LMade, LText, LBlank, LNoise, LFence}

----------------------------------------------------------------------------
(* The segmenter and the merger as a state machine: one action per branch  *)
(* of the loop body of parseContent, fed one input line at a time, then    *)
(* the end of the input and mergeSections.                                 *)

PS == ParseState(sections, currentSection, inCodeBlock, inAction)

\* readStdin has not been called: no chunk is read, nothing is written to
\* stderr
StdinUnread ==
    /\ data = <<<<>>>>
    /\ timeout = "none"
    /\ promise = [state |-> "none", value |-> null]
    /\ stdin = "paused"
    /\ chunks = <<>>
    /\ stderr = <<<<>>>>

\* The script has not been run: there is no file, no result
NotRun ==
    /\ document = <<<<>>>>
    /\ output = null
    /\ force = FALSE
    /\ calls = <<>>
    /\ appended = <<>>
    /\ runs = 0
    /\ written = <<>>
    /\ exitCode = -1

Init ==
    /\ userIdentifier = "alice"
    /\ StdinUnread
    /\ lines = <<>>
    /\ sections = ParseInit.sections
    /\ currentSection = ParseInit.currentSection
    /\ inCodeBlock = ParseInit.inCodeBlock
    /\ inAction = ParseInit.inAction
    /\ merged = <<>>
    /\ agentContent = <<>>
    /\ agentActions = <<>>
    /\ NotRun
    /\ pc = "parse"

\* The lines of the alphabet that can take branch b in some state
LinesFor(b) ==
    {l \in LineAlphabet :
        \E cb \in BOOLEAN, ia \in BOOLEAN :
            Branch(ParseState(<<>>, Section("unknown", <<>>), cb, ia), "alice", l) = b}

NoiseLines == LinesFor("noise")
FenceLines == LinesFor("fence")
InFenceLines == LinesFor("inFence")
IgnoredLines == LinesFor("userIgnored")
UserLines == LinesFor("user")
AgentLines == LinesFor("agent")
ActionStartLines == LinesFor("actionStart")
ActionAppendLines == LinesFor("actionAppend")
ActionBlankLines == LinesFor("actionBlank")
ActionEndLines == LinesFor("actionEnd")
AppendLines == LinesFor("append")

\* Line l is read in the loop and takes branch b
Reading(b, l) ==
    /\ pc = "parse"
    /\ Len(lines) < MaxLines
    /\ Branch(PS, userIdentifier, l) = b

\* The loop state after the iteration
Becomes(st, l) ==
    /\ lines' = Append(lines, l)
    /\ sections' = st.sections
    /\ currentSection' = st.currentSection
    /\ inCodeBlock' = st.inCodeBlock
    /\ inAction' = st.inAction
    /\ UNCHANGED <<userIdentifier, mergeVars, procVars, stdinVars, pc>>

SkipNoise ==
    \E l \in NoiseLines :
        /\ Reading("noise", l)
        /\ Becomes(PS, l)

FenceMarker ==
    \E l \in FenceLines :
        /\ Reading("fence", l)
        /\ Becomes(DoFence(PS, l), l)

FencedLine ==
    \E l \in InFenceLines :
        /\ Reading("inFence", l)
        /\ Becomes(DoInFence(PS, l), l)

IgnoredPrompt ==
    \E l \in IgnoredLines :
        /\ Reading("userIgnored", l)
        /\ Becomes(PS, l)

UserPrompt ==
    \E l \in UserLines :
        /\ Reading("user", l)
        /\ Becomes(DoUser(PS, userIdentifier, l), l)

AgentResponse ==
    \E l \in AgentLines :
        /\ Reading("agent", l)
        /\ Becomes(DoAgent(PS, l), l)

ActionStart ==
    \E l \in ActionStartLines :
        /\ Reading("actionStart", l)
        /\ Becomes(DoActionStart(PS, l), l)

ActionAppend ==
    \E l \in ActionAppendLines :
        /\ Reading("actionAppend", l)
        /\ Becomes(DoActionAppend(PS, l), l)

ActionBlank ==
    \E l \in ActionBlankLines :
        /\ Reading("actionBlank", l)
        /\ Becomes(PS, l)

ActionEnd ==
    \E l \in ActionEndLines :
        /\ Reading("actionEnd", l)
        /\ Becomes(DoActionEnd(PS, l), l)

AppendLine ==
    \E l \in AppendLines :
        /\ Reading("append", l)
        /\ Becomes(DoAppend(PS, l), l)

\* The end of the input: the last section is pushed and parseContent returns
EndOfInput ==
    /\ pc = "parse"
    /\ sections' = Finish(PS)
    /\ pc' = "parsed"
    /\ UNCHANGED <<stdinVars, segVars, mergeVars, procVars>>

\* sections = mergeSections(sections) of processContent
Merge ==
    /\ pc = "parsed"
    /\ merged' = mergeSections(sections)
    /\ pc' = "merged"
    /\ UNCHANGED <<stdinVars, segVars, sections, agentContent, agentActions, procVars>>

Next ==
    \/ SkipNoise \/ FenceMarker \/ FencedLine \/ IgnoredPrompt \/ UserPrompt
    \/ AgentResponse \/ ActionStart \/ ActionAppend \/ ActionBlank \/ ActionEnd
    \/ AppendLine \/ EndOfInput \/ Merge

Spec == Init /\ [][Next]_vars

----------------------------------------------------------------------------
(* mergeSections as a state machine of its own: the section list is any    *)
(* list of sections (the function is exported), fed one section at a time  *)
(* to the loop body, then the final flush.                                 *)

SUser == Section("user-prompt", <<Str(<<"hi">>)>>)
SResp1 == Section("agent-response", <<Str(<<"hello">>)>>)
SResp2 == Section("agent-response", <<Str(<<"Done.">>), Str(<<"bye">>)>>)
SRespPlaceholder == Section("agent-response", <<Str(<<"__ACTION_PLACEHOLDER_0__">>)>>)
SAction1 == ActionSection(<<Str(LRead)>>, <<Str(LRead)>>)
SAction2 == ActionSection(<<Str(LMade), Str(LRead)>>, <<Str(LMade), Str(LRead)>>)
SUnknown == Section("unknown", <<Str(<<"intro">>)>>)

SectionAlphabet == {SUser, SResp1, SResp2, SRespPlaceholder, SAction1, SAction2, SUnknown}

MS == MergeState(merged, agentContent, agentActions)

MergeInit ==
    /\ userIdentifier = "alice"
    /\ StdinUnread
    /\ lines = <<>>
    /\ sections = <<>>
    /\ currentSection = ParseInit.currentSection
    /\ inCodeBlock = FALSE
    /\ inAction = FALSE
    /\ merged = <<>>
    /\ agentContent = <<>>
    /\ agentActions = <<>>
    /\ NotRun
    /\ pc = "merging"

\* The merge state after the loop body has run on section
Merges(ms, section) ==
    /\ sections' = Append(sections, section)
    /\ merged' = ms.merged
    /\ agentContent' = ms.agentContent
    /\ agentActions' = ms.agentActions
    /\ UNCHANGED <<stdinVars, segVars, procVars, pc>>

MergeUserPrompt ==
    \E section \in SectionAlphabet :
        /\ pc = "merging" /\ Len(sections) < MaxSegments
        /\ section.type = "user-prompt"
        /\ Merges(MergeStep(MS, section), section)

MergeAgentResponse ==
    \E section \in SectionAlphabet :
        /\ pc = "merging" /\ Len(sections) < MaxSegments
        /\ section.type = "agent-response"
        /\ Merges(MergeStep(MS, section), section)

MergeAgentAction ==
    \E section \in SectionAlphabet :
        /\ pc = "merging" /\ Len(sections) < MaxSegments
        /\ section.type = "agent-action"
        /\ Merges(MergeStep(MS, section), section)

\* A section of another type takes no branch of the loop body
MergeOther ==
    \E section \in SectionAlphabet :
        /\ pc = "merging" /\ Len(sections) < MaxSegments
        /\ section.type \notin {"user-prompt", "agent-response", "agent-action"}
        /\ Merges(MergeStep(MS, section), section)

\* parsers.js:283-286: the flush after the loop
MergeEnd ==
    /\ pc = "merging"
    /\ LET ms == flushAgentContent(MS) IN
        /\ merged' = ms.merged
        /\ agentContent' = ms.agentContent
        /\ agentActions' = ms.agentActions
    /\ pc' = "merged"
    /\ UNCHANGED <<stdinVars, segVars, sections, procVars>>

MergeNext ==
    \/ MergeUserPrompt \/ MergeAgentResponse \/ MergeAgentAction \/ MergeOther
    \/ MergeEnd

SpecMerge == MergeInit /\ [][MergeNext]_vars

----------------------------------------------------------------------------
(* The script run on a file (formatChatSession: the file is read, given to  *)
(* processContent and, when a text is returned, written), the file piped   *)
(* to the script (main awaits readStdin, then processContent is given the  *)
(* content and the text returned is written to stdout), and the user       *)
(* adding raw chat content at the end of the formatted file.               *)

LMarker == PROCESSED

DocAlphabet == {LUser, LAgent, LRead, LText, LBlank, LFence, LMarker}

\* The files the script is first run on
Documents == UNION {[1..n -> DocAlphabet] : n \in 1..MaxDocLines}

\* options.inputFile
InputFile == <<"prompts", "/", "session.md">>

\* new Date().toISOString() at the time of a run
Dates ==
    {<<"2025-11-13T10", ":", "00", ":", "00.000Z">>,
     <<"2025-11-14T09", ":", "00", ":", "00.000Z">>}

\* The raw content pasted at the end of the file
RawChunks == {<<LUser, LAgent>>}

ProcessInit ==
    /\ userIdentifier = "alice"
    /\ StdinUnread
    /\ lines = <<>>
    /\ sections = <<>>
    /\ currentSection = ParseInit.currentSection
    /\ inCodeBlock = FALSE
    /\ inAction = FALSE
    /\ merged = <<>>
    /\ agentContent = <<>>
    /\ agentActions = <<>>
    /\ document \in Documents
    /\ output = null
    /\ force = FALSE
    /\ calls = <<>>
    /\ appended = <<>>
    /\ runs = 0
    /\ written = <<>>
    /\ exitCode = -1
    /\ pc = "ready"

\* The second argument of the script: no output file, or an output file
OutputFiles == {null, <<"out.md">>}

\* constants.js:40-42: TEXTS.NO_USER_ID (the cross mark is written as its
\* code point, the double quote as "[quote]")
TEXTS_NO_USER_ID ==
    <<<<"[U+274C]", " ", "Could", " ", "not", " ", "detect", " ", "user", " ",
        "identifier", " ", "in", " ", "the", " ", "file.">>,
      <<" ", " ", " ", "Expected", " ", "pattern", ":", " ", "[quote]", "username", ":",
        "[quote]", " ", "at", " ", "the", " ", "start", " ", "of", " ", "a", " ", "line.">>,
      <<" ", " ", " ", "Make", " ", "sure", " ", "the", " ", "file", " ", "contains", " ",
        "user", " ", "prompts", " ", "in", " ", "the", " ", "format", " ", "[quote]",
        "username", ":", " ", "<content>", "[quote]", ".">>>>

\* console.error(text): the text and a line feed
consoleError(text) == Concat(text, <<<<>>, <<>>>>)

\* format-chat-session.js:1055-1059: file mode: a run is a new process, in
\* which readStdin is not called
FileMode ==
    /\ data' = <<<<>>>>
    /\ timeout' = "none"
    /\ promise' = [state |-> "none", value |-> null]
    /\ stdin' = "paused"
    /\ chunks' = <<>>

\* format-chat-session.js:947-949: sections.map(section => formatSection(...)):
\* one call of formatSection for each merged section of the content
formatSectionCalls(content) ==
    [i \in 1..Len(mergeSections(parseContent(content, extractUserIdentifier(content))))
        |-> "formatSection"]

\* The functions that processContent calls on a content (format-chat-
\* session.js:896-958)
callsOfRun(given, forced) ==
    IF isAlreadyProcessed(given) /\ ~forced THEN <<"isAlreadyProcessed">>
    ELSE IF extractUserIdentifier(contentToFormat(given, forced)) = ""
    THEN <<"isAlreadyProcessed", "isAlreadyProcessed", "extractProjectRoot",
           "extractUserIdentifier">>
    ELSE <<"isAlreadyProcessed", "isAlreadyProcessed", "extractProjectRoot",
           "extractUserIdentifier", "parseContent", "mergeSections",
           "generateFrontmatter">>
         \o formatSectionCalls(contentToFormat(given, forced))
         \o <<"ensureMarkdownSpacing", "removeTrailingSpaces", "cleanExcessiveLineBreaks">>

\* The functions that processContent calls on a content, force not set
callsOf(content) == callsOfRun(content, FALSE)

\* format-chat-session.js:896-899 and 987-988: the file is already processed
\* and force is not set; the content is returned and written as it is to the
\* output file, or to the input file when there is none
RunAlreadyProcessed ==
    \E outputFile \in OutputFiles :
        /\ pc \in {"ready", "done", "edited"} /\ runs < MaxRuns
        /\ isAlreadyProcessed(document)
        /\ output' = processContent(document, FALSE, InputFile, CHOOSE now \in Dates : TRUE)
        /\ document' = IF outputFile = null THEN output' ELSE document
        /\ force' = FALSE
        /\ calls' = callsOfRun(document, FALSE)
        /\ runs' = runs + 1
        /\ written' = <<"file">>
        /\ exitCode' = 0
        /\ stderr' = <<<<>>>>
        /\ FileMode
        /\ pc' = "done"
        /\ UNCHANGED <<segVars, sections, mergeVars, appended>>

\* format-chat-session.js:912-917: no user identifier is found and the run
\* is not silent: TEXTS.NO_USER_ID is written to stderr (console.error) and
\* processContent ends the process with status 1; no file is written
RunNoUserIdentifier ==
    \E f \in BOOLEAN :
        /\ pc \in {"ready", "done", "edited"} /\ runs < MaxRuns
        /\ ~(isAlreadyProcessed(document) /\ ~f)
        /\ extractUserIdentifier(contentToFormat(document, f)) = ""
        /\ output' = processContent(document, f, InputFile, CHOOSE now \in Dates : TRUE)
        /\ force' = f
        /\ calls' = callsOfRun(document, f)
        /\ runs' = runs + 1
        /\ written' = <<>>
        /\ exitCode' = 1
        /\ stderr' = consoleError(TEXTS_NO_USER_ID)
        /\ FileMode
        /\ pc' = "done"
        /\ UNCHANGED <<segVars, sections, mergeVars, document, appended>>

\* format-chat-session.js:920-960 and 987-988: the content is formatted and
\* the result is written to the output file, or to the input file when there
\* is none; with an output file the input file is left as it is
RunFormat ==
    \E f \in BOOLEAN, now \in Dates :
        /\ pc \in {"ready", "done", "edited"} /\ runs < MaxRuns
        /\ ~(isAlreadyProcessed(document) /\ ~f)
        /\ extractUserIdentifier(contentToFormat(document, f)) # ""
        /\ output' = processContent(document, f, InputFile, now)
        /\ \E outputFile \in OutputFiles :
              /\ document' = IF outputFile = null THEN output' ELSE document
              /\ appended' = IF outputFile = null THEN <<>> ELSE appended
        /\ force' = f
        /\ calls' = callsOfRun(document, f)
        /\ runs' = runs + 1
        /\ written' = <<"file">>
        /\ exitCode' = 0
        /\ stderr' = <<<<>>>>
        /\ FileMode
        /\ pc' = "done"
        /\ UNCHANGED <<segVars, sections, mergeVars>>

\* Stdin mode (the branch of main that awaits readStdin of lib/io.js, format-
\* chat-session.js:1006-1027).  The callbacks of readStdin are run one at a
\* time by the event loop; the continuation of main after the await is one
\* more step.

MaxChunks == 3

\* The chunks that the stream delivers (setEncoding('utf-8'): strings); a
\* chunk can end within a line
StdinChunks ==
    {<<LUser, <<"GitHub", " ">>>>,
     <<<<"Copilot", ":", " ", "hello">>, <<>>>>,
     <<LText>>}

\* The errors that the stream emits, by their message
StreamErrors == {Str(<<"read", " ", "EIO">>)}

\* new Error('Stdin read timeout after 30 seconds').message
TimeoutMessage == Str(<<"Stdin", " ", "read", " ", "timeout", " ", "after", " ", "30", " ", "seconds">>)

\* A resolve function that settles the promise again
resolveAgain(p, value) == [state |-> "fulfilled", value |-> value]

\* The resolve function of the promise: it settles a pending promise and has
\* no effect on a settled one
resolve(p, value) ==
    IF p.state = "pending" THEN [state |-> "fulfilled", value |-> value] ELSE p

\* The reject function of the promise
reject(p, reason) ==
    IF p.state = "pending" THEN [state |-> "rejected", value |-> reason] ELSE p

\* io.js:13-36: main has called readStdin: data is '', the timer is set, the
\* listeners are on the stream and the promise is returned
StdinInit ==
    /\ userIdentifier = "alice"
    /\ lines = <<>>
    /\ sections = <<>>
    /\ currentSection = ParseInit.currentSection
    /\ inCodeBlock = FALSE
    /\ inAction = FALSE
    /\ merged = <<>>
    /\ agentContent = <<>>
    /\ agentActions = <<>>
    /\ NotRun
    /\ data = <<<<>>>>
    /\ timeout = "armed"
    /\ promise = [state |-> "pending", value |-> null]
    /\ stdin = "flowing"
    /\ chunks = <<>>
    /\ stderr = <<<<>>>>
    /\ pc = "reading"

\* io.js:23-25: the listener of 'data': the chunk is added to data
Data(chunk) ==
    /\ data' = Concat(data, chunk)
    /\ chunks' = Append(chunks, chunk)
    /\ UNCHANGED <<segVars, sections, mergeVars, procVars, timeout, promise, stdin,
                   stderr, pc>>

\* io.js:23-25: 'data', on a stream that delivers any chunks
StdinData ==
    \E chunk \in StdinChunks :
        /\ pc = "reading" /\ stdin = "flowing"
        /\ Len(chunks) < MaxChunks
        /\ Data(chunk)

\* io.js:27-30: 'end': the timer is cleared and the promise is resolved
\* with data
StdinEnd ==
    /\ pc = "reading" /\ stdin = "flowing"
    /\ stdin' = "ended"
    /\ timeout' = IF timeout = "armed" THEN "cleared" ELSE timeout
    /\ promise' = resolve(promise, data)
    /\ UNCHANGED <<segVars, sections, mergeVars, procVars, data, chunks, stderr, pc>>

\* io.js:32-35: 'error': the timer is cleared and the promise is rejected
\* with the error
StdinError ==
    \E error \in StreamErrors :
        /\ pc = "reading" /\ stdin = "flowing"
        /\ stdin' = "errored"
        /\ timeout' = IF timeout = "armed" THEN "cleared" ELSE timeout
        /\ promise' = reject(promise, error)
        /\ UNCHANGED <<segVars, sections, mergeVars, procVars, data, chunks, stderr, pc>>

\* io.js:17-19: the timer fires, 30 seconds after the call, unless it has
\* been cleared: the promise is rejected; the listeners stay on the stream
StdinTimeout ==
    /\ pc = "reading" /\ timeout = "armed"
    /\ timeout' = "fired"
    /\ promise' = reject(promise, TimeoutMessage)
    /\ UNCHANGED <<segVars, sections, mergeVars, procVars, data, stdin, chunks, stderr, pc>>

\* format-chat-session.js:1008-1021: the await returns the content: it is
\* processed under the name 'stdin', force not set; the result is written to
\* stdout and the status is 0, or there is no result and the status is 1
MainResolved ==
    \E now \in Dates :
        /\ pc = "reading" /\ promise.state = "fulfilled"
        /\ output' = processContent(promise.value, FALSE, <<"stdin">>, now)
        /\ force' = FALSE
        /\ calls' = callsOf(promise.value)
        /\ runs' = runs + 1
        /\ written' = IF output' = null THEN <<>> ELSE <<"stdout">>
        /\ exitCode' = IF output' = null THEN 1 ELSE 0
        /\ pc' = "done"
        /\ UNCHANGED <<stdinVars, segVars, sections, mergeVars, document, appended>>

\* format-chat-session.js:1022-1025: the await throws the reason: its message
\* is written to stderr and the status is 1; no result is written
MainRejected ==
    /\ pc = "reading" /\ promise.state = "rejected"
    /\ stderr' = Concat(Concat(Str(<<"Error", ":", " ">>), promise.value), <<<<>>, <<>>>>)
    /\ runs' = runs + 1
    /\ written' = <<>>
    /\ exitCode' = 1
    /\ pc' = "done"
    /\ UNCHANGED <<segVars, sections, mergeVars, document, output, force, calls, appended,
                   data, timeout, promise, stdin, chunks>>

\* readStdin taken alone: the callbacks run in any order that the stream
\* and the timer allow, also after the promise has settled (the listeners
\* stay on the stream), and the continuation of main is taken at some time
\* after the promise has settled
StdinNext ==
    StdinData \/ StdinEnd \/ StdinError \/ StdinTimeout \/ MainResolved \/ MainRejected

SpecStdin == StdinInit /\ [][StdinNext]_vars

\* The part of the content that has not been read: read is the start of the
\* content, and read followed by this part is the content
Remaining(content, read) ==
    <<dropPrefix(content[Len(read)], read[Len(read)])>>
        \o SubSeq(content, Len(read) + 1, Len(content))

\* The chunks that can come next when the content is piped: all that is left
\* of it, or the next line with its line feed when more follows
NextWrites(content, read) ==
    LET rest == Remaining(content, read) IN
    (IF rest = <<<<>>>> THEN {} ELSE {rest})
        \cup (IF Len(rest) >= 2 /\ Tail(rest) # <<<<>>>> THEN {<<rest[1], <<>>>>} ELSE {})

\* format-chat-session.js:1001-1009 and io.js:13-21: the file is piped to
\* the script, which has no argument (so force is not set): a new process
\* starts, main calls readStdin and awaits the promise
PipedStart ==
    /\ pc \in {"ready", "done", "edited"} /\ runs < MaxRuns
    /\ data' = <<<<>>>>
    /\ timeout' = "armed"
    /\ promise' = [state |-> "pending", value |-> null]
    /\ stdin' = "flowing"
    /\ chunks' = <<>>
    /\ stderr' = <<<<>>>>
    /\ output' = null
    /\ force' = FALSE
    /\ calls' = <<>>
    /\ written' = <<>>
    /\ exitCode' = -1
    /\ pc' = "reading"
    /\ UNCHANGED <<segVars, sections, mergeVars, document, appended, runs>>

\* io.js:23-25: 'data' while main awaits: the next chunk of the file. (The
\* continuation of main is the first step to run after the promise has
\* settled, and it ends the process: in a run of the script no callback
\* runs after the settling.)
PipedData ==
    \E chunk \in NextWrites(document, data) :
        /\ pc = "reading" /\ stdin = "flowing" /\ promise.state = "pending"
        /\ Len(chunks) < MaxChunks
        /\ Data(chunk)

\* io.js:27-30: 'end' while main awaits: the writer has written the file
\* and closes the pipe
PipedEnd == promise.state = "pending" /\ data = document /\ StdinEnd

\* io.js:32-35: 'error' while main awaits
PipedError == promise.state = "pending" /\ StdinError

\* io.js:17-19: the timer fires while main awaits: the writer has stalled
PipedTimeout == promise.state = "pending" /\ StdinTimeout

\* README, "Continue the Session": new raw content is added at the end of
\* the file that the script has written (the input file, rewritten in place)
AppendRaw ==
    \E chunk \in RawChunks :
        /\ pc = "done" /\ output # null /\ written = <<"file">> /\ document = output
        /\ Len(appended) + Len(chunk) <= MaxAppended
        /\ document' = Concat(document, chunk)
        /\ appended' = appended \o chunk
        /\ pc' = "edited"
        /\ UNCHANGED <<stdinVars, segVars, sections, mergeVars, output, force, calls, runs, written,
                       exitCode>>

ProcessNext ==
    \/ RunAlreadyProcessed \/ RunNoUserIdentifier \/ RunFormat
    \/ PipedStart \/ PipedData \/ PipedEnd \/ PipedError \/ PipedTimeout
    \/ MainResolved \/ MainRejected
    \/ AppendRaw

SpecProcess == ProcessInit /\ [][ProcessNext]_vars

----------------------------------------------------------------------------
(* The transforms of the pipeline, each applied to a text *)

LReference == <<"see", " ", "#", "file", ":", "a.js">>
LHeading == <<"#", " ", "Title">>
LCommand == <<"Ran", " ", "terminal", " ", "command", ":", " ", "ls">>
LTrailing == <<"code", " ">>
LItem == <<"-", " ", "item">>

TextAlphabet == {LFence, LReference, LHeading, LCommand, LTrailing, LItem, LText, LBlank}

Texts == UNION {[1..n -> TextAlphabet] : n \in 1..MaxTextLines}

TransformInit ==
    /\ userIdentifier = "alice"
    /\ StdinUnread
    /\ lines = <<>>
    /\ sections = <<>>
    /\ currentSection = ParseInit.currentSection
    /\ inCodeBlock = FALSE
    /\ inAction = FALSE
    /\ merged = <<>>
    /\ agentContent = <<>>
    /\ agentActions = <<>>
    /\ document \in Texts
    /\ output = null
    /\ force = FALSE
    /\ calls = <<>>
    /\ appended = <<>>
    /\ runs = 0
    /\ written = <<>>
    /\ exitCode = -1
    /\ pc = "text"

\* The transform called name has returned text
Transformed(name, text) ==
    /\ output' = text
    /\ calls' = <<name>>
    /\ pc' = "transformed"
    /\ UNCHANGED <<stdinVars, segVars, sections, mergeVars, document, force, appended, runs, written, exitCode>>

FormatContextReferences ==
    /\ pc = "text"
    /\ Transformed("formatContextReferences", formatContextReferences(document))

ShiftHeadingLevels ==
    /\ pc = "text"
    /\ Transformed("shiftHeadingLevels", shiftHeadingLevels(document))

FormatTerminalCommands ==
    /\ pc = "text"
    /\ Transformed("formatTerminalCommands", formatTerminalCommands(document))

ForceLineBreaks ==
    /\ pc = "text"
    /\ Transformed("forceLineBreaks", forceLineBreaks(document))

EnsureMarkdownSpacing ==
    /\ pc = "text"
    /\ Transformed("ensureMarkdownSpacing", ensureMarkdownSpacing(document))

RemoveTrailingSpaces ==
    /\ pc = "text"
    /\ Transformed("removeTrailingSpaces", removeTrailingSpaces(document))

CleanExcessiveLineBreaks ==
    /\ pc = "text"
    /\ Transformed("cleanExcessiveLineBreaks", cleanExcessiveLineBreaks(document))

TransformNext ==
    \/ FormatContextReferences \/ ShiftHeadingLevels \/ FormatTerminalCommands
    \/ ForceLineBreaks \/ EnsureMarkdownSpacing \/ RemoveTrailingSpaces
    \/ CleanExcessiveLineBreaks

SpecTransform == TransformInit /\ [][TransformNext]_vars

----------------------------------------------------------------------------
(* The same transforms applied to texts of lines that end with spaces and  *)
(* of headings of several levels                                           *)

MaxLintLines == 3

LHardBreak == <<"code", " ", " ">>
LTabSpace == <<"code", "\t", " ">>
LHeading5 == <<"#", "#", "#", "#", "#", " ", "Title">>
LHeading6 == <<"#", "#", "#", "#", "#", "#", " ", "Title">>
LHeading7 == <<"#", "#", "#", "#", "#", "#", "#", " ", "Title">>
LIndentedHeading == <<" ", "#", " ", " ", "Title">>

LNumbered == <<"1", ".", " ", "step">>
LTable == <<"|", " ", "a", " ", "|">>
LComment == <<"<!--", " ", "note", " ", "-->">>
LIndented == <<" ", " ", " ", "code">>
LFrontmatter == <<"---">>

LintAlphabet ==
    {LFence, LBlank, LText, LTrailing, LHardBreak, LTabSpace,
     LHeading, LHeading5, LHeading6, LHeading7, LIndentedHeading,
     LItem, LNumbered, LTable, LComment, LIndented, LFrontmatter}

LintTexts == UNION {[1..n -> LintAlphabet] : n \in 1..MaxLintLines}

LintInit ==
    /\ userIdentifier = "alice"
    /\ StdinUnread
    /\ lines = <<>>
    /\ sections = <<>>
    /\ currentSection = ParseInit.currentSection
    /\ inCodeBlock = FALSE
    /\ inAction = FALSE
    /\ merged = <<>>
    /\ agentContent = <<>>
    /\ agentActions = <<>>
    /\ document \in LintTexts
    /\ output = null
    /\ force = FALSE
    /\ calls = <<>>
    /\ appended = <<>>
    /\ runs = 0
    /\ written = <<>>
    /\ exitCode = -1
    /\ pc = "text"

SpecLint == LintInit /\ [][TransformNext]_vars

----------------------------------------------------------------------------
(* processContent on a content read from stdin (format-chat-session.js:     *)
(* 891-960, silent, force not set). The chats hold no marker line, so the   *)
(* gate of lines 896-905 lets each of them through with its content as it   *)
(* is. The user identifier is looked for; without one the call returns      *)
(* null; with one the content is parsed, the sections are merged, the       *)
(* frontmatter is generated, each section is formatted, the document is     *)
(* assembled and linted.                                                    *)

MaxChatLines == 4

\* A line of the agent that quotes a text of the placeholder form
LQuoted == <<"see", " ", "__ACTION_PLACEHOLDER_0__">>

ChatAlphabet == {LUser, LAgent, LRead, LText, LQuoted, LHeading, LItem}

Chats == UNION {[1..n -> ChatAlphabet] : n \in 1..MaxChatLines}

\* format-chat-session.js:891: processContent is called on the content; no
\* user identifier has been looked for
RenderInit ==
    /\ userIdentifier = ""
    /\ StdinUnread
    /\ lines \in Chats
    /\ sections = <<>>
    /\ currentSection = ParseInit.currentSection
    /\ inCodeBlock = FALSE
    /\ inAction = FALSE
    /\ merged = <<>>
    /\ agentContent = <<>>
    /\ agentActions = <<>>
    /\ NotRun
    /\ pc = "chat"

\* format-chat-session.js:896-918: the content is not already processed;
\* extractUserIdentifier finds the identifier of the content
DetectChat ==
    /\ pc = "chat"
    /\ ~isAlreadyProcessed(lines)
    /\ extractUserIdentifier(lines) # ""
    /\ userIdentifier' = extractUserIdentifier(lines)
    /\ calls' = <<"isAlreadyProcessed", "isAlreadyProcessed", "extractProjectRoot",
                  "extractUserIdentifier">>
    /\ pc' = "chatDetected"
    /\ UNCHANGED <<stdinVars, lines, currentSection, inCodeBlock, inAction, sections, mergeVars,
                   document, output, force, appended, runs, written, exitCode>>

\* format-chat-session.js:896-917: the content is not already processed;
\* extractUserIdentifier finds no identifier: the call is silent, so nothing
\* is written to stderr and the process goes on; processContent returns null
\* and nothing is parsed
ReturnNull ==
    /\ pc = "chat"
    /\ ~isAlreadyProcessed(lines)
    /\ extractUserIdentifier(lines) = ""
    /\ output' = null
    /\ calls' = <<"isAlreadyProcessed", "isAlreadyProcessed", "extractProjectRoot",
                  "extractUserIdentifier">>
    /\ pc' = "returnedNull"
    /\ UNCHANGED <<stdinVars, segVars, sections, mergeVars, document, force, appended, runs,
                   written, exitCode>>

\* format-chat-session.js:922
ParseChat ==
    /\ pc = "chatDetected"
    /\ calls' = calls \o <<"parseContent">>
    /\ sections' = parseContent(lines, userIdentifier)
    /\ pc' = "chatParsed"
    /\ UNCHANGED <<stdinVars, segVars, mergeVars, document, output, force, appended, runs, written,
                   exitCode>>

\* format-chat-session.js:926
MergeChat ==
    /\ pc = "chatParsed"
    /\ merged' = mergeSections(sections)
    /\ calls' = calls \o <<"mergeSections">>
    /\ pc' = "chatMerged"
    /\ UNCHANGED <<stdinVars, segVars, sections, agentContent, agentActions, document, output,
                   force, appended, runs, written, exitCode>>

\* format-chat-session.js:940-945: the frontmatter is generated, the content
\* being read from stdin
GenerateChat ==
    \E now \in Dates :
        /\ pc = "chatMerged"
        /\ document' = generateFrontmatter(extractProjectRoot(lines), basename(<<"stdin">>),
                                           now)
        /\ calls' = calls \o <<"generateFrontmatter">>
        /\ pc' = "chatFrontmatter"
        /\ UNCHANGED <<stdinVars, segVars, sections, mergeVars, output, force, appended, runs,
                       written, exitCode>>

\* format-chat-session.js:947-949: formatSection is called once for each
\* merged section
FormatChat ==
    /\ pc = "chatFrontmatter"
    /\ output' = join(formatSections(merged, extractProjectRoot(lines)))
    /\ calls' = calls \o [i \in 1..Len(merged) |-> "formatSection"]
    /\ pc' = "formatted"
    /\ UNCHANGED <<stdinVars, segVars, sections, mergeVars, document, force, appended, runs, written,
                   exitCode>>

\* format-chat-session.js:951: formattedContent = frontmatter +
\* formattedSections
AssembleChat ==
    /\ pc = "formatted"
    /\ document' = Concat(document, output)
    /\ pc' = "assembled"
    /\ UNCHANGED <<stdinVars, segVars, sections, mergeVars, output, force, calls, appended, runs,
                   written, exitCode>>

\* format-chat-session.js:953-960: the linting passes and the return
LintChat ==
    /\ pc = "assembled"
    /\ output' = lintDocument(document)
    /\ calls' = calls \o LintingRules
    /\ pc' = "linted"
    /\ UNCHANGED <<stdinVars, segVars, sections, mergeVars, document, force, appended, runs, written,
                   exitCode>>

RenderNext ==
    \/ DetectChat \/ ReturnNull
    \/ ParseChat \/ MergeChat \/ GenerateChat \/ FormatChat \/ AssembleChat \/ LintChat

SpecRender == RenderInit /\ [][RenderNext]_vars

----------------------------------------------------------------------------
(* Claims about the segmenter and the merger (specification Spec) *)

IsFenceMarker(l) == startsWith(l, <<FENCE>>)

\* The user-turn openers of the input: the lines outside a code fence that
\* start with "<userIdentifier>:" and whose payload matches no ignore pattern
RECURSIVE CountOpeners(_, _, _)
CountOpeners(ls, uid, fenced) ==
    IF ls = <<>> THEN 0
    ELSE LET l == Head(ls) IN
         IF IsFenceMarker(l) THEN CountOpeners(Tail(ls), uid, ~fenced)
         ELSE (IF /\ ~fenced
                  /\ startsWith(l, <<uid, ":">>)
                  /\ ~IGNORE_USER_PROMPTS(trim(dropPrefix(l, <<uid, ":">>)))
               THEN 1 ELSE 0)
              + CountOpeners(Tail(ls), uid, fenced)

CountType(ss, t) == Cardinality({i \in DOMAIN ss : ss[i].type = t})

\* C1: parseContent followed by mergeSections returns exactly as many
\* user-prompt sections as the input has user-turn openers outside a fence
\* whose payload is not an ignored continuation, whatever follows each opener.
C1_TurnCount ==
    pc = "merged" => CountType(merged, "user-prompt") = CountOpeners(lines, userIdentifier, FALSE)

\* The tool-action lines of the input, in order: outside a fence, not noise,
\* matching an action pattern
RECURSIVE ActionLinesOf(_, _)
ActionLinesOf(ls, fenced) ==
    IF ls = <<>> THEN <<>>
    ELSE LET l == Head(ls) IN
         IF IsFenceMarker(l) THEN ActionLinesOf(Tail(ls), ~fenced)
         ELSE (IF ~fenced /\ ~NOISE_PATTERNS(l) /\ ACTION_PATTERNS(l)
               THEN <<Str(l)>> ELSE <<>>)
              \o ActionLinesOf(Tail(ls), fenced)

\* The bodies of the agent-action sections of a list, one after the other
RECURSIVE ActionBodies(_)
ActionBodies(ss) ==
    IF ss = <<>> THEN <<>>
    ELSE (IF Head(ss).type = "agent-action" THEN Head(ss).content ELSE <<>>)
         \o ActionBodies(Tail(ss))

\* C4: every tool-action line of the input is in the body of exactly one
\* agent-action section returned by parseContent, whatever ends the action
\* sequence (plain text, user opener, agent opener, end of input).
C4_NoActionLineLost ==
    pc \in {"parsed", "merged"} => ActionBodies(sections) = ActionLinesOf(lines, FALSE)

\* The inputs of scenario A: a user opener, an agent opener, n >= 1 tool-action
\* lines and a plain text line
IsPlainText(l) ==
    /\ trim(l) # <<>>
    /\ ~NOISE_PATTERNS(l) /\ ~IsFenceMarker(l) /\ ~ACTION_PATTERNS(l)
    /\ ~startsWith(l, <<userIdentifier, ":">>) /\ ~startsWith(l, AGENT_PREFIX)

IsScenarioA(ls) ==
    /\ Len(ls) >= 4
    /\ startsWith(ls[1], <<userIdentifier, ":">>)
    /\ ~IGNORE_USER_PROMPTS(trim(dropPrefix(ls[1], <<userIdentifier, ":">>)))
    /\ startsWith(ls[2], AGENT_PREFIX)
    /\ \A i \in 3..(Len(ls) - 1) : ACTION_PATTERNS(ls[i])
    /\ IsPlainText(ls[Len(ls)])

ScenarioAResult(ls) ==
    LET acts == [i \in 1..(Len(ls) - 3) |-> Str(ls[i + 2])] IN
    << [type |-> "user-prompt",
        content |-> <<Str(trim(dropPrefix(ls[1], <<userIdentifier, ":">>)))>>,
        actions |-> <<>>, hasActions |-> FALSE],
       [type |-> "agent-response",
        content |-> <<Str(trim(dropPrefix(ls[2], AGENT_PREFIX))), Placeholder(0),
                      Str(ls[Len(ls)])>>,
        actions |-> <<[type |-> "agent-action", content |-> acts, actions |-> acts,
                       hasActions |-> TRUE]>>,
        hasActions |-> TRUE] >>

\* C7: for a user opener with payload p, an agent opener with payload r, n >= 1
\* tool-action lines a1..an and a plain text line t, the merged result is
\* exactly [user-prompt [p], agent-response with content [r, placeholder 0, t]
\* and actions = one agent-action section with content [a1..an]].
C7_ScenarioA ==
    (pc = "merged" /\ IsScenarioA(lines)) => merged = ScenarioAResult(lines)

C7_Witness ==
    /\ pc = "merged"
    /\ lines = <<LUser, LAgent, LRead, LMade, LText>>
    /\ merged = ScenarioAResult(lines)

\* C9: a noise line is dropped in every segmenter state: reading it leaves
\* the open section, the inAction flag, the fence flag and the emitted list
\* unchanged.
C9_NoiseDropped ==
    [][(pc = "parse" /\ lines' # lines /\ NOISE_PATTERNS(lines'[Len(lines')]))
        => UNCHANGED <<sections, currentSection, inCodeBlock, inAction>>]_vars

\* A noise line has just been read inside a fence, during an action sequence
C9_Witness ==
    /\ pc = "parse"
    /\ lines = <<LAgent, LRead, LFence, LNoise>>
    /\ inAction /\ inCodeBlock
    /\ currentSection = ActionSection(<<Str(LFence)>>, <<Str(LRead)>>)

----------------------------------------------------------------------------
(* Claims about mergeSections (specification SpecMerge) *)

IsFused(section) == section.type = "agent-response"

\* The content lists of the agent-response sections of a merged list
RECURSIVE FusedBodies(_)
FusedBodies(ms) ==
    IF ms = <<>> THEN <<>>
    ELSE (IF IsFused(Head(ms)) THEN <<Head(ms).content>> ELSE <<>>) \o FusedBodies(Tail(ms))

\* The body that an ordered scan gives a group of sections: the joined text
\* of each agent-response and a placeholder for each agent-action, in the
\* order of the group; k counts the actions met so far
RECURSIVE OrderedBody(_, _)
OrderedBody(group, k) ==
    IF group = <<>> THEN <<>>
    ELSE IF Head(group).type = "agent-response"
         THEN <<joinLF(Head(group).content)>> \o OrderedBody(Tail(group), k)
    ELSE IF Head(group).type = "agent-action"
         THEN <<Placeholder(k)>> \o OrderedBody(Tail(group), k + 1)
    ELSE OrderedBody(Tail(group), k)

\* The bodies expected of a section list: one per run of sections between
\* user-prompts that holds an agent-response or an agent-action
RECURSIVE ExpectedBodies(_, _)
ExpectedBodies(ss, group) ==
    LET body == OrderedBody(group, 0)
        done == IF body = <<>> THEN <<>> ELSE <<body>> IN
    IF ss = <<>> THEN done
    ELSE IF Head(ss).type = "user-prompt" THEN done \o ExpectedBodies(Tail(ss), <<>>)
    ELSE ExpectedBodies(Tail(ss), Append(group, Head(ss)))

\* C2: the body of each fused agent-response lists text chunks and action
\* placeholders in the order in which their source sections occur in the
\* list given to mergeSections, never reordered by type.
C2_InterleavingOrder ==
    pc = "merged" => FusedBodies(merged) = ExpectedBodies(sections, <<>>)

PlaceholderIndexes == 0..(Len(PlaceholderTokens) - 1)

\* How many elements of a content list are the placeholder of index i
CountPlaceholder(content, i) ==
    Cardinality({j \in DOMAIN content : content[j] = Placeholder(i)})

\* C3: in every fused agent-response the placeholder tokens that are elements
\* of its content list carry exactly the indices 0 .. len(actions)-1, each
\* exactly once.
C3_PlaceholderDensity ==
    pc = "merged" =>
        \A m \in DOMAIN merged :
            IsFused(merged[m]) =>
                \A i \in PlaceholderIndexes :
                    CountPlaceholder(merged[m].content, i)
                        = (IF i < Len(merged[m].actions) THEN 1 ELSE 0)

----------------------------------------------------------------------------
(* Claims about the runs of the script (specification SpecProcess) *)

\* The text holds the processed-marker comment
ContainsMarker(text) == \E i \in DOMAIN text : includes(text[i], PROCESSED)

\* A step ends a run of the script without force in which processContent has
\* been called (it is not called when readStdin fails)
RunsWithoutForce == runs' = runs + 1 /\ ~force' /\ calls' # <<>>

\* C5: when the input holds the processed marker and force is false,
\* processContent returns the input as it is, the file is left as it is and
\* no function past the gate is called.
C5_IdempotenceGate ==
    [][(RunsWithoutForce /\ ContainsMarker(document))
        => /\ output' = document
           /\ document' = document
           /\ calls' = <<"isAlreadyProcessed">>]_vars

\* The first run, without force, of a file that holds the marker after a
\* user turn and an agent turn
C5_Witness ==
    /\ pc = "done" /\ runs = 1 /\ ~force
    /\ document = <<LUser, LAgent, LMarker>>
    /\ output = document
    /\ calls = <<"isAlreadyProcessed">>

\* C6: whenever a run without force succeeds, its output holds the processed
\* marker and processContent without force maps the output to itself; a
\* further run without force, on the file that the run has written, leaves
\* the file as it is.
C6_RunIdempotent ==
    [][(RunsWithoutForce /\ output' # null)
        => /\ ContainsMarker(output')
           /\ \A now \in Dates : processContent(output', FALSE, InputFile, now) = output'
           /\ (pc = "done" /\ ~force /\ output # null /\ written = <<"file">>
               /\ document = output)
                  => document' = document]_vars

\* The second run without force of a file that the first run has formatted
C6_Witness ==
    /\ pc = "done" /\ runs = 2 /\ ~force
    /\ calls = <<"isAlreadyProcessed">>
    /\ output = document
    /\ document = processContent(<<LUser, LAgent, LRead>>, FALSE, InputFile,
                                 <<"2025-11-13T10", ":", "00", ":", "00.000Z">>)

\* The last lines of the text are the lines ls
endsWithLines(text, ls) ==
    /\ Len(text) >= Len(ls)
    /\ SubSeq(text, Len(text) - Len(ls) + 1, Len(text)) = ls

\* C10: after raw chat content has been added at the end of a formatted
\* file, a run without force processes the new sections: the file does not
\* end with the raw lines any more.
C10_IncrementalRerun ==
    (pc = "done" /\ ~force /\ appended # <<>>) => ~endsWithLines(document, appended)

----------------------------------------------------------------------------
(* Claims about the transforms (specification SpecTransform) *)

\* The indices of the fence markers of a text, in order
markerIndices(text) ==
    LET M == {i \in DOMAIN text : isCodeBlockMarker(text[i])} IN
    [n \in 1..Cardinality(M) |->
        CHOOSE i \in M : Cardinality({j \in M : j <= i}) = n]

\* The lines strictly between each opening marker and its closing marker
FencedBlocks(text) ==
    LET m == markerIndices(text) IN
    [k \in 1..(Len(m) \div 2) |-> SubSeq(text, m[2 * k - 1] + 1, m[2 * k] - 1)]

\* The elements of a occur in b in the order of a
RECURSIVE IsSubsequence(_, _)
IsSubsequence(a, b) ==
    IF a = <<>> THEN TRUE
    ELSE IF b = <<>> THEN FALSE
    ELSE IF Head(a) = Head(b) THEN IsSubsequence(Tail(a), Tail(b))
    ELSE IsSubsequence(a, Tail(b))

\* C8: no transform of the pipeline changes, inserts or removes a line
\* strictly between an opening fence marker and its closing marker: the
\* fenced blocks of the text are fenced blocks of the result, in order.
C8_FenceSafety ==
    pc = "transformed" => IsSubsequence(FencedBlocks(document), FencedBlocks(output))

----------------------------------------------------------------------------
(* Claims about forced runs of the script (specification SpecProcess) *)

\* The file is the text that an earlier run has formatted and written
ProducedByEarlierRun ==
    /\ pc = "done" /\ output # null /\ document = output
    /\ \E i \in DOMAIN calls : calls[i] = "generateFrontmatter"

\* A step is a run of the script with force
RunsWithForce == runs' = runs + 1 /\ force'

\* The line that closes the frontmatter block which opens the text, 0 when
\* the text opens with no such block
FrontmatterEnd(text) ==
    LET closing == {i \in 2..Len(text) : text[i] = <<"---">>} IN
    IF text[1] = <<"---">> /\ closing # {} THEN Min(closing) ELSE 0

\* The text after its leading frontmatter block
AfterFrontmatter(text) == SubSeq(text, FrontmatterEnd(text) + 1, Len(text))

\* The lines at which a frontmatter block opens
FrontmatterStarts(text) ==
    {i \in 1..(Len(text) - 1) :
        text[i] = <<"---">> /\ text[i + 1] = <<"type", ":", " ", "chat-session">>}

\* C11: when a run with force is given the file that an earlier run has
\* written, the text handed to the segmenter is that file without its leading
\* frontmatter block (the lines from the opening "---" to the closing "---")
\* and with everything after it, and the new output has one frontmatter block,
\* at its start.
C11_ForcedReprocessing ==
    [][(RunsWithForce /\ ProducedByEarlierRun)
        => /\ FrontmatterEnd(document) > 0
           /\ contentToFormat(document, TRUE) = AfterFrontmatter(document)
           /\ output' # null => FrontmatterStarts(output') = {1}]_vars

----------------------------------------------------------------------------
(* Claims about orphan sections (specification SpecMerge) *)

\* The index of the first user-prompt of a list, its length plus one when it
\* has none
FirstUserPrompt(ss) ==
    LET at == {i \in DOMAIN ss : ss[i].type = "user-prompt"} IN
    IF at = {} THEN Len(ss) + 1 ELSE Min(at)

\* The sections before the first user-prompt
Orphans(ss) == SubSeq(ss, 1, FirstUserPrompt(ss) - 1)

\* C12: the sections that precede the first user-prompt of the list given to
\* mergeSections are in the result as they are, in the same order, before
\* the first user-prompt: none is fused, none is dropped.
C12_OrphanPassThrough ==
    pc = "merged" => Orphans(merged) = Orphans(sections)

----------------------------------------------------------------------------
(* Claims about the merged list (specification Spec) *)

\* The sections of a type, in order
RECURSIVE SectionsOfType(_, _)
SectionsOfType(ss, t) ==
    IF ss = <<>> THEN <<>>
    ELSE (IF Head(ss).type = t THEN <<Head(ss)>> ELSE <<>>) \o SectionsOfType(Tail(ss), t)

\* The actions lists of the agent-responses of a list, one after the other
RECURSIVE HeldActions(_)
HeldActions(ms) ==
    IF ms = <<>> THEN <<>>
    ELSE (IF Head(ms).type = "agent-response" THEN Head(ms).actions ELSE <<>>)
         \o HeldActions(Tail(ms))

\* C13: after mergeSections has run on the list that parseContent returns, no
\* agent-action section is at the top level of the result, and every
\* agent-action section of the list is in the actions of an agent-response.
C13_NoTopLevelAction ==
    pc = "merged" =>
        /\ CountType(merged, "agent-action") = 0
        /\ HeldActions(merged) = SectionsOfType(sections, "agent-action")

\* A user turn, an agent turn, a tool-action line and a text line have been
\* parsed and merged: the action sequence is held by the fused agent-response
C13_Witness ==
    /\ pc = "merged"
    /\ lines = <<LUser, LAgent, LRead, LText>>
    /\ CountType(sections, "agent-action") = 1
    /\ Len(merged) = 2 /\ Len(merged[2].actions) = 1

----------------------------------------------------------------------------
(* Claims about the line transforms (specification SpecLint) *)

\* The line without the spaces at its end
RECURSIVE StripSpaces(_)
StripSpaces(l) ==
    IF l # <<>> /\ l[Len(l)] = " " THEN StripSpaces(SubSeq(l, 1, Len(l) - 1)) ELSE l

\* The number of spaces at the end of the line
TrailingSpaces(l) == Len(l) - Len(StripSpaces(l))

\* Line i of the text is followed by a blank line, or is the last line
BeforeBlank(text, i) == i = Len(text) \/ trim(text[i + 1]) = <<>>

\* The line that the rule of trailing spaces gives for line i, the spaces
\* being removed by strip
NormalizedLine(text, i, strip(_)) ==
    IF TrailingSpaces(text[i]) = 0 THEN text[i]
    ELSE IF TrailingSpaces(text[i]) = 1 THEN strip(text[i])
    ELSE IF BeforeBlank(text, i) THEN strip(text[i])
    ELSE text[i]

RemovedTrailingSpaces == pc = "transformed" /\ calls = <<"removeTrailingSpaces">>

\* C14 as stated: removeTrailingSpaces removes the one space at the end of a
\* line, removes the two or more spaces at the end of a line exactly when
\* the next line is blank or there is none, and leaves the other lines as
\* they are (only the spaces are removed).
C14_TrailingSpacesOnly ==
    RemovedTrailingSpaces =>
        /\ Len(output) = Len(document)
        /\ \A i \in DOMAIN document : output[i] = NormalizedLine(document, i, StripSpaces)

\* C14: removeTrailingSpaces removes the white space at the end of a line
\* that ends with exactly one space, removes the white space at the end of a
\* line that ends with two or more spaces exactly when the next line is
\* blank or there is none, and leaves the other lines as they are.
C14_TrailingSpaceNormalization ==
    RemovedTrailingSpaces =>
        /\ Len(output) = Len(document)
        /\ \A i \in DOMAIN document : output[i] = NormalizedLine(document, i, trimEnd)

\* One space is removed, two spaces before a line of text are kept, two
\* spaces at the end of the text are removed
C14_Witness ==
    /\ RemovedTrailingSpaces
    /\ document = <<LTrailing, LHardBreak, LHardBreak>>
    /\ output = <<<<"code">>, LHardBreak, <<"code">>>>

\* The level of a markdown heading: one to six "#" and white space start the
\* line once its indentation is removed; 0 for any other line
HeadingLevel(l) ==
    LET t == trim(l)
        n == countHashes(t) IN
    IF n \in 1..6 /\ Len(t) > n /\ t[n + 1] \in WhiteSpace THEN n ELSE 0

\* The text of a heading of level n
HeadingText(l, n) == LET t == trim(l) IN trim(SubSeq(t, n + 1, Len(t)))

\* Line i of the text is inside a fence: an odd number of fence markers
\* precede it
InsideFence(text, i) ==
    Cardinality({j \in 1..(i - 1) : IsFenceMarker(trim(text[j]))}) % 2 = 1

ShiftedHeadingLevels == pc = "transformed" /\ calls = <<"shiftHeadingLevels">>

\* C15: shiftHeadingLevels turns each heading of level n in 1..6 that is
\* outside a fence into a heading of level min(n + 1, 6) with the same text
\* (level 6 stays 6, level 7 is never made), and returns every line inside a
\* fence and every line that is not a heading as it is.
C15_HeadingShiftAndCap ==
    ShiftedHeadingLevels =>
        /\ Len(output) = Len(document)
        /\ \A i \in DOMAIN document :
            LET n == HeadingLevel(document[i]) IN
            IF n > 0 /\ ~InsideFence(document, i)
            THEN /\ HeadingLevel(output[i]) = (IF n < 6 THEN n + 1 ELSE 6)
                 /\ HeadingText(output[i], HeadingLevel(output[i])) = HeadingText(document[i], n)
                 /\ countHashes(trim(output[i])) <= 6
            ELSE output[i] = document[i]

\* A heading of level 5 becomes one of level 6, one of level 6 stays at level
\* 6, and a line of seven "#" is left as it is
C15_Witness ==
    /\ ShiftedHeadingLevels
    /\ document = <<LHeading5, LHeading6, LHeading7>>
    /\ output = <<LHeading6, LHeading6, LHeading7>>

----------------------------------------------------------------------------
(* Claims about blank lines (specification SpecTransform) *)

\* Line i of the text is the third blank line of a run, or a later one
ThirdBlank(text, i) ==
    i >= 3 /\ text[i] = <<>> /\ text[i - 1] = <<>> /\ text[i - 2] = <<>>

\* The text with every run of three or more blank lines cut down to two
RECURSIVE TwoBlankLinesFrom(_, _)
TwoBlankLinesFrom(text, i) ==
    IF i > Len(text) THEN <<>>
    ELSE (IF ThirdBlank(text, i) THEN <<>> ELSE <<text[i]>>) \o TwoBlankLinesFrom(text, i + 1)

\* C16: cleanExcessiveLineBreaks replaces every run of three or more blank
\* lines by two blank lines and leaves the runs of one or two blank lines as
\* they are (for a text that ends with a line that is not blank, so that
\* every blank line of the text is a line in full).
C16_BlankLineCompaction ==
    (/\ pc = "transformed" /\ calls = <<"cleanExcessiveLineBreaks">>
     /\ document[Len(document)] # <<>>)
        => output = TwoBlankLinesFrom(document, 1)

----------------------------------------------------------------------------
(* Claims about the end of a run (specification SpecProcess) *)

\* The line is of the form "word: ..." once its indentation is removed
IsIdentifierLine(l) ==
    LET t == trim(l) IN
    Len(t) >= 3 /\ t[1] \in IdentifierTokens /\ t[2] = ":" /\ t[3] \in WhiteSpace

\* No line of the form "word: " is followed, later in the text, by a line
\* that starts with "GitHub Copilot:"
NoIdentifierIn(text) ==
    ~\E i \in DOMAIN text, k \in DOMAIN text :
        i < k /\ IsIdentifierLine(text[i]) /\ startsWith(trim(text[k]), AGENT_PREFIX)

\* A step ends a run of the script
RunsScript == runs' = runs + 1

\* The run ends with a status that is not 0 and has written nothing: the
\* file is as it was and nothing went to stdout
AbortsWithoutWriting == exitCode' # 0 /\ written' = <<>> /\ document' = document

\* C17 as stated: whenever the text given to a run has no user identifier,
\* the run ends with a status that is not 0 and writes nothing, neither to
\* the file nor to stdout.
C17_NoIdentifierAborts ==
    [][(RunsScript /\ NoIdentifierIn(document)) => AbortsWithoutWriting]_vars

\* C17: whenever the text given to a run has no user identifier and the run
\* is not stopped at the gate (the text holds no processed marker, or force
\* is set), the run ends with a status that is not 0 and writes nothing,
\* neither to the file nor to stdout.
C17_UnrecoverableInput ==
    [][(/\ RunsScript /\ NoIdentifierIn(document)
        /\ ~(ContainsMarker(document) /\ ~force'))
        => AbortsWithoutWriting]_vars

\* The first run, on a file whose only "word: " line comes after the agent's
\* line, has ended with status 1 and has written nothing
C17_Witness ==
    /\ pc = "done" /\ runs = 1
    /\ document = <<LAgent, LUser>>
    /\ output = null /\ written = <<>> /\ exitCode = 1

\* The line is the processedDate line of a frontmatter
IsProcessedDateLine(l) == startsWith(l, <<"processedDate", ":", " ">>)

\* Two results of processContent are equal but for the processedDate line of
\* the frontmatter (line 5 of the block that generateFrontmatter writes)
EqualButDate(a, b) ==
    \/ a = b
    \/ /\ a # null /\ b # null /\ Len(a) = Len(b)
       /\ \A i \in DOMAIN a :
            a[i] # b[i] => i = 5 /\ IsProcessedDateLine(a[i]) /\ IsProcessedDateLine(b[i])

\* C18: a run of processContent on the same content, with the same force
\* flag and the same input file name as the run just made (the name is
\* 'stdin' for the run that has written to stdout), at any time, returns the
\* same text but for the processedDate line of the frontmatter.
C18_Determinism ==
    [][(RunsScript /\ calls' # <<>>) =>
        \A now \in Dates :
            \A again \in {processContent(document, force',
                                         IF written' = <<"stdout">> THEN <<"stdin">>
                                         ELSE InputFile,
                                         now)} :
                EqualButDate(output', again)]_vars

\* The first run has formatted a user turn and an agent turn; a run at the
\* other time gives another text, which differs on the processedDate line
C18_Witness ==
    /\ pc = "done" /\ runs = 1 /\ written = <<"file">>
    /\ LET first == processContent(<<LUser, LAgent>>, FALSE, InputFile,
                                   <<"2025-11-13T10", ":", "00", ":", "00.000Z">>)
           second == processContent(<<LUser, LAgent>>, FALSE, InputFile,
                                    <<"2025-11-14T09", ":", "00", ":", "00.000Z">>)
       IN /\ output = first
          /\ first # second
          /\ EqualButDate(first, second)

----------------------------------------------------------------------------
(* Claims about the rendering (specification SpecRender) *)

\* The place, in the content of a fused agent-response, of the placeholder
\* that the merge has made for actions[k + 1]: the merge alternates the texts
\* and the placeholders, k from 0
PlaceholderPlace(section, k) ==
    LET texts == Len(section.content) - Len(section.actions) IN
    (IF k + 1 < texts THEN k + 1 ELSE texts) + k + 1

\* The fused agent-response with, in the place of each placeholder, the block
\* of the action it stands for, and no action left to substitute
Substituted(section, projectRoot) ==
    [section EXCEPT
        !.content = [i \in DOMAIN section.content |->
            IF \E k \in 0..(Len(section.actions) - 1) : PlaceholderPlace(section, k) = i
            THEN actionBlock(
                     section.actions[(CHOOSE k \in 0..(Len(section.actions) - 1) :
                                         PlaceholderPlace(section, k) = i) + 1],
                     projectRoot)
            ELSE section.content[i]],
        !.actions = <<>>]

\* C19: for every fused agent-response that mergeSections makes from a chat,
\* formatSection puts the block of actions[i] in the place of placeholder i:
\* the rendered text is the text of the response with each placeholder
\* replaced by its block, each block once, whatever the lines of the chat
\* are, lines that hold a text of the placeholder form included.
C19_PlaceholderSubstitution ==
    pc = "formatted" =>
        \A m \in DOMAIN merged :
            IsFused(merged[m]) =>
                formatSection(merged[m], extractProjectRoot(lines))
                    = formatSection(Substituted(merged[m], extractProjectRoot(lines)),
                                    extractProjectRoot(lines))

----------------------------------------------------------------------------
(* Claims about fenced lines (specification Spec) *)

\* The lines of the input that the fence keeps, in order: the fence markers
\* and the lines read inside a fence, the noise lines left out
RECURSIVE FenceKeptLines(_, _)
FenceKeptLines(ls, fenced) ==
    IF ls = <<>> THEN <<>>
    ELSE LET l == Head(ls) IN
         IF NOISE_PATTERNS(l) THEN FenceKeptLines(Tail(ls), fenced)
         ELSE IF IsFenceMarker(l) THEN <<Str(l)>> \o FenceKeptLines(Tail(ls), ~fenced)
         ELSE (IF fenced THEN <<Str(l)>> ELSE <<>>) \o FenceKeptLines(Tail(ls), fenced)

\* The bodies of the sections of a list, one after the other
RECURSIVE AllBodies(_)
AllBodies(ss) ==
    IF ss = <<>> THEN <<>> ELSE Head(ss).content \o AllBodies(Tail(ss))

\* C20: every fence marker and every line read inside a fence that is not
\* noise is, as it was read, in the body of a section that parseContent
\* returns, in the order of the input, whatever the state of the segmenter
\* was when it was read.
C20_FencedLinesKept ==
    pc = "parsed" => IsSubsequence(FenceKeptLines(lines, FALSE), AllBodies(sections))

----------------------------------------------------------------------------
(* Claims about the loop of parseContent (specification Spec) *)

\* The line that the step has read
LineRead == lines'[Len(lines')]

\* The step reads one line of the input
ReadsLine == pc = "parse" /\ lines' # lines

\* C21: while the fence flag is set, a line that is not a fence marker is
\* not classified, whatever its text is (an opener, a tool action, a noise
\* line, a blank line): it is appended to the open section, and no section
\* is opened, closed or emitted.
C21_NoClassificationInFence ==
    [][(ReadsLine /\ inCodeBlock /\ ~IsFenceMarker(LineRead))
        => /\ currentSection' =
                [currentSection EXCEPT !.content = Append(@, Str(LineRead))]
           /\ UNCHANGED <<sections, inCodeBlock, inAction>>]_vars

\* C22: every agent-action section that parseContent has emitted has as its
\* content the tool-action lines accumulated for its sequence, in the order
\* of the input, and nothing else, however the section was closed (a line of
\* text, a user opener, an agent opener, the end of the input) and also when
\* fence lines were read during the sequence.
C22_ActionBody ==
    \A i \in DOMAIN sections :
        sections[i].type = "agent-action"
            => sections[i].content = sections[i].actions

\* The segmenter is in InToolAction, outside a fence
InToolAction == inAction /\ ~inCodeBlock

\* The line is not taken by a test that precedes the action sequence in the
\* loop: it is no noise line, no fence marker, no user or agent opener
ReachesActionSequence(l) ==
    /\ ~NOISE_PATTERNS(l)
    /\ ~IsFenceMarker(l)
    /\ ~startsWith(l, <<userIdentifier, ":">>)
    /\ ~startsWith(l, AGENT_PREFIX)

\* C23: while the segmenter is in InToolAction, outside a fence, a further
\* tool-action line is appended to the accumulator and the state is
\* unchanged; a blank line changes nothing and is appended to no body; any
\* other line emits the agent-action section, its content the accumulated
\* actions (when there is at least one), and opens a new agent-response
\* whose body is exactly that line, with inAction false.
C23_ActionSequenceTransitions ==
    [][(ReadsLine /\ InToolAction /\ ReachesActionSequence(LineRead))
        => IF ACTION_PATTERNS(LineRead)
           THEN /\ currentSection' =
                     [currentSection EXCEPT !.actions = Append(@, Str(LineRead))]
                /\ UNCHANGED <<sections, inCodeBlock, inAction>>
           ELSE IF trim(LineRead) = <<>>
           THEN UNCHANGED <<sections, currentSection, inCodeBlock, inAction>>
           ELSE /\ sections' =
                     IF Len(currentSection.actions) > 0
                     THEN Append(sections,
                                 [currentSection EXCEPT !.content = currentSection.actions])
                     ELSE sections
                /\ currentSection' = Section("agent-response", <<Str(LineRead)>>)
                /\ inAction' = FALSE
                /\ UNCHANGED inCodeBlock]_vars

\* A sequence of two tool-action lines and a blank line has been ended by a
\* line of text: the section is emitted with the two actions and the text
\* opens an agent-response
C23_Witness ==
    /\ pc = "parse"
    /\ Len(lines) >= 4
    /\ LET n == Len(lines) IN
       /\ ACTION_PATTERNS(lines[n - 3]) /\ ACTION_PATTERNS(lines[n - 2])
       /\ lines[n - 1] = <<>>
       /\ IsPlainText(lines[n])
       /\ sections # <<>>
       /\ sections[Len(sections)].type = "agent-action"
       /\ sections[Len(sections)].content = <<Str(lines[n - 3]), Str(lines[n - 2])>>
       /\ currentSection = Section("agent-response", <<Str(lines[n])>>)
       /\ ~inAction

\* The line is a user-turn opener whose payload starts with '@agent Continue:'
\* or with 'Continue:'
IsIgnoredContinuation(l) ==
    /\ startsWith(l, <<userIdentifier, ":">>)
    /\ LET payload == trim(dropPrefix(l, <<userIdentifier, ":">>)) IN
       \/ startsWith(payload, <<"@agent", " ", "Continue", ":">>)
       \/ startsWith(payload, <<"Continue", ":">>)

\* C24: a user-turn opener read outside a fence whose payload starts with
\* '@agent Continue:' or 'Continue:' is dropped in every state of the
\* segmenter: no section is opened or emitted for it, and the open section,
\* its body, its accumulated actions, the inAction flag and the emitted list
\* are unchanged.
C24_IgnoredContinuation ==
    [][(ReadsLine /\ ~inCodeBlock /\ IsIgnoredContinuation(LineRead))
        => UNCHANGED <<sections, currentSection, inCodeBlock, inAction>>]_vars

\* An ignored continuation prompt has been read during an action sequence,
\* after a section was emitted: the sequence is still open
C24_Witness ==
    /\ pc = "parse"
    /\ lines # <<>>
    /\ IsIgnoredContinuation(lines[Len(lines)])
    /\ ~inCodeBlock
    /\ inAction
    /\ currentSection.type = "agent-action"
    /\ Len(currentSection.actions) > 0
    /\ sections # <<>>

\* The line is a tool-action line that the loop classifies: it is no noise
\* line, no fence marker, no user or agent opener, and it matches an action
\* pattern
IsClassifiedAction(l) == ReachesActionSequence(l) /\ ACTION_PATTERNS(l)

\* C25: a line read outside a fence that is not noise, is no user or agent
\* opener and matches a tool-action pattern is never appended to the body
\* of a user-prompt, agent-response or unknown section, in any state of the
\* segmenter: after the step the open section is an agent-action section
\* whose accumulator ends with the line, and no body has received it.
C25_ActionPrecedence ==
    [][(ReadsLine /\ ~inCodeBlock /\ IsClassifiedAction(LineRead))
        => /\ currentSection'.type = "agent-action"
           /\ inAction'
           /\ currentSection'.actions # <<>>
           /\ currentSection'.actions[Len(currentSection'.actions)] = Str(LineRead)
           /\ currentSection'.content =
                 (IF inAction THEN currentSection.content ELSE <<>>)
           /\ \/ sections' = sections
              \/ /\ currentSection.type = "agent-response"
                 /\ sections' = Append(sections, currentSection)]_vars

\* A tool-action line has been read while a user-prompt was open: it is in
\* the accumulator of a new agent-action section
C25_Witness ==
    /\ pc = "parse"
    /\ Len(lines) >= 2
    /\ startsWith(lines[Len(lines) - 1], <<userIdentifier, ":">>)
    /\ ~IsIgnoredContinuation(lines[Len(lines) - 1])
    /\ IsClassifiedAction(lines[Len(lines)])
    /\ ~inCodeBlock
    /\ currentSection.type = "agent-action"
    /\ currentSection.actions = <<Str(lines[Len(lines)])>>
    /\ currentSection.content = <<>>

\* C26: after any sequence of input lines, every section of the list that
\* parseContent builds and returns has a content of at least one line: no
\* empty section is emitted at a boundary or by the final flush.
C26_NonEmptySections ==
    \A i \in DOMAIN sections : Len(sections[i].content) >= 1

\* parseContent has returned at least two sections for an input whose first
\* line is a user opener (the empty unknown section is open at that
\* boundary) and whose last line is a tool-action line (the final flush
\* finds an agent-action section with an empty content)
C26_Witness ==
    /\ pc = "parsed"
    /\ Len(lines) >= 3
    /\ startsWith(lines[1], <<userIdentifier, ":">>)
    /\ ~IsIgnoredContinuation(lines[1])
    /\ IsClassifiedAction(lines[Len(lines)])
    /\ inAction /\ ~inCodeBlock
    /\ currentSection.content = <<>>
    /\ Len(sections) >= 2

\* List a is the beginning of list b
IsPrefix(a, b) == Len(a) <= Len(b) /\ \A i \in DOMAIN a : b[i] = a[i]

\* The sections of a list, as a set
SectionsIn(ss) == {ss[i] : i \in DOMAIN ss}

\* C27: a section that parseContent has pushed to the emitted list is not
\* changed by any later line or by the final flush: the list only grows at
\* its end, and a step that emits the open section replaces it by a new
\* section whose content is made from the line read alone. mergeSections
\* leaves the list it receives as it is: the sections of its result that are
\* not fused are sections of the list, unchanged, and the actions of a fused
\* agent-response are agent-action sections of the list, unchanged.
C27_ClosedSectionsFrozen ==
    [][/\ pc = "parse" => IsPrefix(sections, sections')
       /\ (pc = "parse" /\ pc' = "parse" /\ sections' # sections)
             => /\ sections' = Append(sections, sections'[Len(sections')])
                /\ currentSection' \in
                      {Section("user-prompt",
                               <<Str(trim(dropPrefix(LineRead, <<userIdentifier, ":">>)))>>),
                       Section("agent-response",
                               <<Str(trim(dropPrefix(LineRead, AGENT_PREFIX)))>>),
                       Section("agent-response", <<Str(LineRead)>>),
                       ActionSection(<<>>, <<Str(LineRead)>>)}
       /\ pc = "parsed"
             => /\ sections' = sections
                /\ \A m \in DOMAIN merged' :
                      IF merged'[m].hasActions
                      THEN \A k \in DOMAIN merged'[m].actions :
                               /\ merged'[m].actions[k] \in SectionsIn(sections)
                               /\ merged'[m].actions[k].type = "agent-action"
                      ELSE merged'[m] \in SectionsIn(sections)]_vars

\* Two sections have been emitted, lines have been appended to the section
\* opened after them, and the merge has fused the response and its action
C27_Witness ==
    /\ pc = "merged"
    /\ Len(sections) >= 3
    /\ \E i \in DOMAIN sections : sections[i].type = "agent-action"
    /\ Len(sections[Len(sections)].content) >= 2
    /\ \E m \in DOMAIN merged : merged[m].hasActions /\ merged[m].actions # <<>>

----------------------------------------------------------------------------
(* Claims about the shape of the merged list (specification SpecMerge) *)

IsUserPrompt(section) == section.type = "user-prompt"

\* The place of the k-th user-prompt of a list
UserPromptAt(ss, k) ==
    CHOOSE i \in DOMAIN ss :
        /\ IsUserPrompt(ss[i])
        /\ Cardinality({j \in 1..i : IsUserPrompt(ss[j])}) = k

\* The places of a list after place i and before the next user-prompt
TurnAfter(ss, i) ==
    {j \in (i + 1)..Len(ss) : \A h \in (i + 1)..j : ~IsUserPrompt(ss[h])}

\* C28: in the result of mergeSections every user-prompt is followed by at
\* most one section before the next user-prompt, an agent-response, and a
\* user-prompt that has no agent-response and no agent-action section after
\* it in the input (before the next user-prompt) is followed directly by the
\* next user-prompt or by the end of the list: no empty fused response is
\* made for it.
C28_MergedTurnShape ==
    pc = "merged" =>
        /\ \A i \in DOMAIN merged :
              IsUserPrompt(merged[i]) =>
                  /\ Cardinality(TurnAfter(merged, i)) <= 1
                  /\ \A j \in TurnAfter(merged, i) : merged[j].type = "agent-response"
        /\ CountType(merged, "user-prompt") = CountType(sections, "user-prompt")
        /\ \A k \in 1..CountType(sections, "user-prompt") :
              (\A j \in TurnAfter(sections, UserPromptAt(sections, k)) :
                   sections[j].type \notin {"agent-response", "agent-action"})
                  => TurnAfter(merged, UserPromptAt(merged, k)) = {}

\* The input holds a user-prompt followed by a response and an action, which
\* are fused, and a user-prompt followed by nothing to fuse, which is
\* followed by the next user-prompt
C28_Witness ==
    /\ pc = "merged"
    /\ Len(merged) >= 4
    /\ \E i \in DOMAIN merged :
          /\ IsUserPrompt(merged[i])
          /\ i < Len(merged)
          /\ merged[i + 1].hasActions
          /\ Len(merged[i + 1].actions) >= 1
          /\ Len(merged[i + 1].content) >= 2
    /\ \E i \in DOMAIN merged :
          /\ IsUserPrompt(merged[i])
          /\ i < Len(merged)
          /\ IsUserPrompt(merged[i + 1])

----------------------------------------------------------------------------
(* Claims about the line breaks and the spacing (specification SpecLint) *)

ForcedLineBreaks == pc = "transformed" /\ calls = <<"forceLineBreaks">>

\* The line is a heading, a list item, an ordered-list item or a table row
IsBlockLine(l) ==
    \/ startsWith(l, <<"#">>)
    \/ startsWith(l, <<"-", " ">>)
    \/ startsWith(l, <<"*", " ">>)
    \/ Len(l) >= 3 /\ l[1] \in Numbers /\ l[2] = "." /\ l[3] = " "
    \/ \E j \in DOMAIN l : l[j] = "|"

IsHtmlComment(l) == startsWith(trim(l), <<"<!--">>)

IsIndented(l) == startsWith(l, <<" ", " ", " ">>) \/ startsWith(l, <<"\t">>)

\* Line i of the text is outside a fence; the marker that closes a fence is
\* outside, the marker that opens one is not
OutsideFence(text, i) ==
    Cardinality({j \in 1..i : IsFenceMarker(trim(text[j]))}) % 2 = 0

\* Line i takes a forced line break: it is outside a fence, it is not blank
\* and of no structural kind, and the line after it is not blank and of no
\* structural kind either (the kind of the following line is looked for
\* after its leading white space; a following fence marker counts as
\* structure)
TakesLineBreak(text, i) ==
    /\ OutsideFence(text, i)
    /\ trim(text[i]) # <<>>
    /\ ~IsBlockLine(text[i]) /\ ~IsHtmlComment(text[i]) /\ ~IsIndented(text[i])
    /\ i < Len(text)
    /\ LET next == text[i + 1] IN
       /\ trim(next) # <<>>
       /\ ~IsBlockLine(trim(next)) /\ ~IsFenceMarker(trim(next))
       /\ ~IsHtmlComment(next) /\ ~IsIndented(next)

\* C29: forceLineBreaks appends two spaces to a line exactly when the line
\* is outside a fence, is not blank and is no heading, list item,
\* ordered-list item, table row, HTML comment or indented line, and the
\* following line is not blank and is none of those kinds either, a
\* following HTML comment or indented line included; every other line is
\* returned as it is.
C29_ForcedLineBreaks ==
    ForcedLineBreaks =>
        /\ Len(output) = Len(document)
        /\ \A i \in DOMAIN document :
              output[i] = IF TakesLineBreak(document, i)
                          THEN document[i] \o <<" ", " ">>
                          ELSE document[i]

EnsuredSpacing == pc = "transformed" /\ calls = <<"ensureMarkdownSpacing">>

IsBlankLine(l) == trim(l) = <<>>

\* /^[-*]\s/ or /^\d+\.\s/ after the leading white space
IsListLine(l) ==
    LET t == trim(l) IN
    \/ Len(t) >= 2 /\ t[1] \in {"-", "*"} /\ t[2] \in WhiteSpace
    \/ Len(t) >= 3 /\ t[1] \in Numbers /\ t[2] = "." /\ t[3] \in WhiteSpace

\* Line i of the text is a heading, the first item of a new list or a fence
\* marker, and the line before it is not blank, not a frontmatter delimiter,
\* not an HTML comment and not a fence marker
WantsBlankBefore(text, i) ==
    /\ i > 1
    /\ \/ HeadingLevel(text[i]) > 0
       \/ IsListLine(text[i]) /\ ~IsListLine(text[i - 1])
       \/ IsFenceMarker(trim(text[i]))
    /\ ~IsBlankLine(text[i - 1])
    /\ ~startsWith(trim(text[i - 1]), <<"---">>)
    /\ ~IsHtmlComment(text[i - 1])
    /\ ~IsFenceMarker(trim(text[i - 1]))

\* Line i of the text is a heading and the line after it is not blank
WantsBlankAfter(text, i) ==
    /\ HeadingLevel(text[i]) > 0
    /\ i < Len(text)
    /\ ~IsBlankLine(text[i + 1])

\* The place in the result of line i of the text, which is not blank: the
\* transform adds empty lines only, so it is the place of the k-th line of
\* the result that is not blank, k the number of such lines up to line i
PlaceInResult(text, result, i) ==
    LET k == Cardinality({j \in 1..i : ~IsBlankLine(text[j])}) IN
    CHOOSE p \in DOMAIN result :
        /\ ~IsBlankLine(result[p])
        /\ Cardinality({q \in 1..p : ~IsBlankLine(result[q])}) = k

\* C30: in the result of ensureMarkdownSpacing every heading, every first
\* item of a new list and every fence marker whose preceding line is not
\* blank, a frontmatter delimiter, an HTML comment or a fence marker is
\* preceded by exactly one blank line, and every heading whose next line is
\* not blank is followed by exactly one blank line, for every input, two
\* headings on consecutive lines included.
C30_StructuralSpacing ==
    EnsuredSpacing =>
        \A i \in DOMAIN document :
            ~IsBlankLine(document[i]) =>
                \A p \in {PlaceInResult(document, output, i)} :
                    /\ output[p] = document[i]
                    /\ WantsBlankBefore(document, i) =>
                          /\ p >= 3
                          /\ IsBlankLine(output[p - 1])
                          /\ ~IsBlankLine(output[p - 2])
                    /\ WantsBlankAfter(document, i) =>
                          /\ p + 2 <= Len(output)
                          /\ IsBlankLine(output[p + 1])
                          /\ ~IsBlankLine(output[p + 2])

----------------------------------------------------------------------------
(* Claims about the order of the linting passes of processContent          *)
(* (specification SpecRender)                                              *)

\* processContent has run its core on the chat and has returned
CoreHasRun == pc = "linted"

\* C31 (as stated): processContent applies the passes to the assembled
\* document in the order trailing-space normalization, blank-line
\* compaction, structural spacing last.
C31_SpacingLast ==
    CoreHasRun =>
        output = ensureMarkdownSpacing(
                     cleanExcessiveLineBreaks(removeTrailingSpaces(document)))

\* The last three functions that processContent has called
LastPasses == SubSeq(calls, Len(calls) - 2, Len(calls))

\* C31 (amended): processContent applies the passes to the assembled
\* document in the order structural spacing, trailing-space normalization,
\* blank-line compaction last: the document that it returns is the
\* compaction of the normalization of the spacing of the assembled document,
\* and these are the last three functions that it has called, in this order.
C31_CompactionLast ==
    CoreHasRun =>
        /\ output = cleanExcessiveLineBreaks(
                        removeTrailingSpaces(ensureMarkdownSpacing(document)))
        /\ LastPasses = <<"ensureMarkdownSpacing", "removeTrailingSpaces",
                          "cleanExcessiveLineBreaks">>

\* The core has run on a chat in which the user identifier was found and for
\* which the two orders give two documents
C31_Witness ==
    /\ CoreHasRun
    /\ userIdentifier = "alice"
    /\ calls = <<"isAlreadyProcessed", "isAlreadyProcessed", "extractProjectRoot",
                 "extractUserIdentifier", "parseContent", "mergeSections",
                 "generateFrontmatter">>
               \o [i \in 1..Len(merged) |-> "formatSection"]
               \o <<"ensureMarkdownSpacing", "removeTrailingSpaces",
                    "cleanExcessiveLineBreaks">>
    /\ output # ensureMarkdownSpacing(
                    cleanExcessiveLineBreaks(removeTrailingSpaces(document)))

----------------------------------------------------------------------------
(* Claims about the state of the segmenter (specification Spec) *)

\* C32: after any sequence of input lines, inAction is true exactly when the
\* open section has type agent-action; the open section then has its
\* actions accumulator, so that a tool-action line is appended to it and a
\* line of text that ends the sequence finds it.
C32_StateConsistency ==
    /\ inAction <=> currentSection.type = "agent-action"
    /\ inAction => currentSection.hasActions

\* An action sequence and a user-prompt have been emitted, so the flag has
\* been set and cleared, and a new sequence is open
C32_Witness ==
    /\ pc = "parse"
    /\ inAction
    /\ Len(currentSection.actions) >= 1
    /\ \E i \in DOMAIN sections : sections[i].type = "agent-action"
    /\ \E i \in DOMAIN sections : sections[i].type = "user-prompt"

\* C33: in the list that parseContent returns, a section of type unknown
\* occurs at most once and only as the first section; every later section
\* has type user-prompt, agent-response or agent-action.
C33_UnknownFirstOnly ==
    pc \in {"parsed", "merged"} =>
        \A i \in DOMAIN sections :
            IF i = 1
            THEN sections[i].type \in {"unknown", "user-prompt", "agent-response",
                                       "agent-action"}
            ELSE sections[i].type \in {"user-prompt", "agent-response", "agent-action"}

\* parseContent has returned an unknown section followed by two sections
C33_Witness ==
    /\ pc = "parsed"
    /\ Len(sections) >= 3
    /\ sections[1].type = "unknown"

----------------------------------------------------------------------------
(* Claims about what the merge keeps (specification Spec) *)

\* The elements of a content that are not one of the placeholders 0 .. n - 1,
\* in order
RECURSIVE ChunksOf(_, _)
ChunksOf(content, n) ==
    IF content = <<>> THEN <<>>
    ELSE (IF \A k \in 0..(n - 1) : Head(content) # Placeholder(k)
          THEN <<Head(content)>> ELSE <<>>)
         \o ChunksOf(Tail(content), n)

\* The text chunks of the agent-responses of a merged list, in order: the
\* elements of their content that are not the placeholders of their actions
RECURSIVE TextChunks(_)
TextChunks(ms) ==
    IF ms = <<>> THEN <<>>
    ELSE (IF Head(ms).type = "agent-response"
          THEN ChunksOf(Head(ms).content, Len(Head(ms).actions)) ELSE <<>>)
         \o TextChunks(Tail(ms))

\* The joined texts of the agent-response sections of a list, in order
RECURSIVE JoinedTexts(_)
JoinedTexts(ss) ==
    IF ss = <<>> THEN <<>>
    ELSE (IF Head(ss).type = "agent-response" THEN <<joinLF(Head(ss).content)>> ELSE <<>>)
         \o JoinedTexts(Tail(ss))

\* The merge has dropped no section of the list: a section that is no
\* user-prompt, agent-response or agent-action is in the result as it is
NoSectionDropped ==
    \A i \in DOMAIN sections :
        sections[i].type \notin {"user-prompt", "agent-response", "agent-action"}
            => \E m \in DOMAIN merged : merged[m] = sections[i]

\* C34: for every list that parseContent returns, the joined text of each
\* agent-response section is once a text chunk of one section of the result,
\* each agent-action section is once in the actions of one section of the
\* result, the user-prompt sections of the result are those of the list in
\* the same order, and nothing is duplicated or dropped.
C34_MergeConservesSections ==
    pc = "merged" =>
        /\ TextChunks(merged) = JoinedTexts(sections)
        /\ HeldActions(merged) = SectionsOfType(sections, "agent-action")
        /\ SectionsOfType(merged, "user-prompt") = SectionsOfType(sections, "user-prompt")
        /\ CountType(merged, "agent-action") = 0
        /\ NoSectionDropped

\* The text holds a run of three line feeds: the line feeds are between the
\* lines, so two empty lines follow each other and a line follows them
HasThreeLineFeeds(text) ==
    \E k \in 1..(Len(text) - 3) : text[k + 1] = <<>> /\ text[k + 2] = <<>>

\* The last call of processContent, by the script run on a file or on
\* stdin, has run the core and has returned a document
CoreHasRunInScript ==
    /\ calls # <<>>
    /\ calls[Len(calls)] = "cleanExcessiveLineBreaks"
    /\ output # null

\* C35: whenever processContent runs the core (the marker is absent, or
\* force is set), the document that it returns holds no run of three or
\* more line feeds: no two empty lines follow each other between two lines,
\* whatever the input is (a file or stdin, with blank lines, fence lines or
\* the marker line).
C35_FinalSpacing ==
    CoreHasRunInScript => ~HasThreeLineFeeds(output)

\* The script has been run with force and an output file on a file that
\* holds the marker: the core has run, the assembled document had, after
\* the spacing and the normalization, a run of three line feeds, and the
\* returned document has none
C35_Witness ==
    /\ CoreHasRunInScript
    /\ force
    /\ isAlreadyProcessed(document)
    /\ written = <<"file">>
    /\ \E now \in Dates :
           /\ output = processContent(document, TRUE, InputFile, now)
           /\ HasThreeLineFeeds(
                  removeTrailingSpaces(ensureMarkdownSpacing(
                      assembleContent(contentToFormat(document, TRUE), InputFile, now))))
    /\ ~HasThreeLineFeeds(output)

----------------------------------------------------------------------------
(* Claims about the detection of the user identifier (specification Spec) *)

\* The line on which extractUserIdentifier finds the identifier: the first
\* line '<identifier>: ...' that has a 'GitHub Copilot:' line after it
DetectionLine(content) ==
    Min({i \in DOMAIN content :
            /\ identifierMatch(trim(content[i]))
            /\ \E k \in (i + 1)..Len(content) :
                   startsWith(trim(content[k]), AGENT_PREFIX)})

\* C36: whenever extractUserIdentifier returns an identifier u for a
\* content, parseContent(content, u) returns at least one user-prompt
\* section, and one whose first line is the payload of the line on which u
\* was found, whatever the content is (the detection line inside a fence,
\* with a payload that matches an ignore pattern, or directly followed by a
\* tool-action line included).
C36_DetectionAgrees ==
    (pc = "parsed" /\ extractUserIdentifier(lines) = userIdentifier) =>
        \E i \in DOMAIN sections :
            /\ sections[i].type = "user-prompt"
            /\ sections[i].content # <<>>
            /\ Head(sections[i].content) =
                  Str(trim(dropPrefix(trim(lines[DetectionLine(lines)]),
                                      <<userIdentifier, ":">>)))

----------------------------------------------------------------------------
(* The legacy mergeSections (format-chat-session.js:544-594) and the claim *)
(* that the two mergers agree (specification Spec)                         *)

\* format-chat-session.js:568-577: the loop over the group that follows a
\* user-prompt; a section that is neither an agent-response nor an
\* agent-action adds nothing
RECURSIVE legacyFuse(_, _, _)
legacyFuse(agentItems, fusedContent, fusedActions) ==
    IF agentItems = <<>> THEN Fused(fusedContent, fusedActions)
    ELSE LET item == Head(agentItems) IN
         IF item.type = "agent-response"
         THEN legacyFuse(Tail(agentItems),
                         Append(fusedContent, joinLF(item.content)), fusedActions)
         ELSE IF item.type = "agent-action"
         THEN legacyFuse(Tail(agentItems),
                         Append(fusedContent, Placeholder(Len(fusedActions))),
                         Append(fusedActions, item))
         ELSE legacyFuse(Tail(agentItems), fusedContent, fusedActions)

\* format-chat-session.js:556-561: the sections up to the next user-prompt
legacyGroupLength(ss) ==
    Min({Len(ss)} \cup {i - 1 : i \in {j \in DOMAIN ss : ss[j].type = "user-prompt"}})

\* format-chat-session.js:548-591: the while loop
RECURSIVE legacyMergeLoop(_, _)
legacyMergeLoop(ss, acc) ==
    IF ss = <<>> THEN acc
    ELSE IF Head(ss).type = "user-prompt"
    THEN LET rest == Tail(ss)
             n == legacyGroupLength(rest)
             withPrompt == Append(acc, Head(ss))
         IN legacyMergeLoop(SubSeq(rest, n + 1, Len(rest)),
                            IF n > 0
                            THEN Append(withPrompt, legacyFuse(SubSeq(rest, 1, n), <<>>, <<>>))
                            ELSE withPrompt)
    ELSE legacyMergeLoop(Tail(ss), Append(acc, Head(ss)))

\* format-chat-session.js:544-594
legacyMergeSections(ss) == legacyMergeLoop(ss, <<>>)

\* C37: for every list that parseContent returns, mergeSections of
\* lib/parsers.js returns the same list of sections, with the same content
\* and the same actions, as the legacy mergeSections.
C37_MergersAgree ==
    pc = "merged" => merged = legacyMergeSections(sections)

----------------------------------------------------------------------------
(* The legacy forceLineBreaks (format-chat-session.js:181-240) and the     *)
(* claim that the two line-break inserters agree (specification SpecLint)  *)

\* format-chat-session.js:187-237: what the loop pushes to result for line i
\* (from 1); inCodeBlock is the flag before the line is read
legacyBrokenLine(text, i) ==
    LET line == text[i]
        trimmedLine == trim(line)
        inCodeBlockBefore ==
            Cardinality({j \in 1..(i - 1) : startsWith(trim(text[j]), <<FENCE>>)}) % 2 = 1
        nextLine == IF i < Len(text) THEN text[i + 1] ELSE <<>>
        nextTrimmed == trim(nextLine)
        isNextLineEmpty == nextTrimmed = <<>>
        isNextLineStructure ==
            \/ startsWith(nextLine, <<"#">>)
            \/ startsWith(nextLine, <<"-", " ">>)
            \/ startsWith(nextLine, <<"*", " ">>)
            \/ isNumbered(nextLine, {" "})
            \/ includes(nextLine, <<"|">>)
            \/ startsWith(nextTrimmed, <<FENCE>>)
            \/ startsWith(nextLine, <<" ", " ", " ">>)
            \/ startsWith(nextLine, <<"\t">>)
    IN IF startsWith(trimmedLine, <<FENCE>>) THEN line
       ELSE IF inCodeBlockBefore THEN line
       ELSE IF \/ trimmedLine = <<>>
               \/ startsWith(line, <<"#">>)
               \/ startsWith(line, <<"-", " ">>)
               \/ startsWith(line, <<"*", " ">>)
               \/ isNumbered(line, {" "})
               \/ includes(line, <<"|">>)
               \/ startsWith(trimmedLine, <<"<!--">>)
               \/ startsWith(line, <<" ", " ", " ">>)
               \/ startsWith(line, <<"\t">>)
       THEN line
       ELSE IF ~isNextLineEmpty /\ ~isNextLineStructure THEN line \o <<" ", " ">>
       ELSE line

\* format-chat-session.js:181-240
legacyForceLineBreaks(text) == [i \in DOMAIN text |-> legacyBrokenLine(text, i)]

\* C38: for every text, forceLineBreaks built on transformLines and
\* addLineBreak returns the same text as the legacy forceLineBreaks: both
\* return the fence markers as they are and both take a following indented
\* line for structure.
C38_LineBreakersAgree ==
    ForcedLineBreaks => output = legacyForceLineBreaks(document)

----------------------------------------------------------------------------
(* Claims about readStdin (specification SpecStdin) *)

\* The concatenation of the chunks, in the order of the sequence
RECURSIVE JoinedChunks(_)
JoinedChunks(cs) ==
    IF cs = <<>> THEN <<<<>>>>
    ELSE Concat(JoinedChunks(SubSeq(cs, 1, Len(cs) - 1)), cs[Len(cs)])

\* The promise of readStdin is settled
Settled == promise.state \in {"fulfilled", "rejected"}

\* C39: under every interleaving of the 'data', 'end', 'error' and timeout
\* callbacks the promise of readStdin settles once: a settled promise keeps
\* its state and its value whatever callback runs later. When 'end' comes
\* while the promise is pending, the promise is fulfilled with the
\* concatenation of the chunks in arrival order and the timer is cleared.
\* When the timer fires or 'error' comes while the promise is pending, the
\* promise is rejected. After a rejection main writes nothing to stdout.
C39_SettlesOnce ==
    [][/\ Settled => promise' = promise
       /\ promise.state = "pending" /\ stdin = "flowing" /\ stdin' = "ended"
            => /\ promise' = [state |-> "fulfilled", value |-> JoinedChunks(chunks)]
               /\ timeout' = "cleared"
       /\ promise.state = "pending"
          /\ \/ timeout = "armed" /\ timeout' = "fired"
             \/ stdin = "flowing" /\ stdin' = "errored"
            => promise'.state = "rejected"
       /\ promise.state = "rejected"
            => /\ written' # <<"stdout">>
               /\ output' = null
               /\ written' = <<>>]_vars

\* The timer has fired first, chunks and 'end' have come later, and main has
\* ended with the rejection: the message is on stderr, nothing on stdout
C39_Witness ==
    /\ timeout = "fired"
    /\ stdin = "ended"
    /\ chunks # <<>>
    /\ promise = [state |-> "rejected", value |-> TimeoutMessage]
    /\ pc = "done"
    /\ written = <<>>
    /\ stderr = Concat(Concat(Str(<<"Error", ":", " ">>), TimeoutMessage), <<<<>>, <<>>>>)
    /\ exitCode = 1

====
